---- MODULE Spec2Model ----
(***************************************************************************)
(* Game Center: the three agent simulations (boids flocking, aquarium      *)
(* predator/prey, ant colony) as state machines.                           *)
(*                                                                         *)
(* Numbers.  JavaScript doubles are rendered in fixed point: a quantity q  *)
(* is the integer q * Unit (Unit = 100, so 0.03 is 3 and 50 is 5000).      *)
(* Math.sqrt is rounded up to the next unit and products and quotients are *)
(* rounded toward zero, so rounding never lengthens a normalised vector.   *)
(* Pheromone levels and rates are in thousandths (Milli), angles in       *)
(* milliradians.                                                           *)
(*                                                                         *)
(* Math.random() is a stream of samples that repeats with RngPeriod; the    *)
(* page starts at any of NumSeeds positions of it and every draw advances  *)
(* the position.                                                           *)
(* Object references (a neighbour, a fish) are indices or ids.             *)
(***************************************************************************)
EXTENDS Integers, Sequences, FiniteSets, TLC

VARIABLES
    boidsSim,   \* the BoidsSimulation object     (public/scripts/boids-simulation.js)
    aquarium,   \* the AquariumSimulation object  (unnamed/part_001)
    colony,     \* the AntColonySimulation object (public/scripts/ant-colony.js)
    memoryGame, \* the state of the memory game   (public/scripts/hangman.js, 885-1143)
    snakeGame,  \* the state of the snake game    (public/scripts/hangman.js, 320-882)
    rng,        \* position in the stream of Math.random()
    op,         \* observation: the handler that ran last, with its arguments
    frames,     \* animation frames elapsed
    inputs      \* user events handled

vars == <<boidsSim, aquarium, colony, memoryGame, snakeGame, rng, op, frames, inputs>>

----------------------------------------------------------------------------
(* Bounds of the model *)

\* animation frames per behaviour
MaxFrames == 3
\* user events (slider, button, pointer) per behaviour
MaxInputs == 1
\* largest population count a slider event asks for
MaxCount == 3
\* positions of the random stream a page may start at
NumSeeds == 2

----------------------------------------------------------------------------
(* Fixed-point arithmetic *)

Unit == 10 * 10

Abs(a) == IF a < 0 THEN -a ELSE a

Min(a, b) == IF a < b THEN a ELSE b

Max(a, b) == IF a > b THEN a ELSE b

\* a / b on integers, rounded toward zero; b # 0 at every use
Div(a, b) ==
    LET q == Abs(a) \div Abs(b)
    IN  IF (a < 0) = (b < 0) THEN q ELSE -q

\* a * b of two fixed-point numbers
Mul(a, b) == Div(a * b, Unit)

\* a / b of two fixed-point numbers
Quot(a, b) == Div(a * Unit, b)

RECURSIVE SqrtIter(_, _, _)
SqrtIter(n, lo, hi) ==
    IF lo >= hi THEN lo
    ELSE LET mid == (lo + hi) \div 2
         IN  IF mid * mid >= n THEN SqrtIter(n, lo, mid)
             ELSE SqrtIter(n, mid + 1, hi)

\* Math.sqrt(n) for n = x*x + y*y of fixed-point x, y: the least s with s*s >= n
Sqrt(n) == SqrtIter(n, 0, 46340)

Hypot(x, y) == Sqrt(x * x + y * y)

Vec(x, y) == [x |-> x, y |-> y]

Zero == Vec(0, 0)

\* the indices of a sequence, and its elements
Indices(seq) == 1 .. Len(seq)

Range(seq) == {seq[i] : i \in Indices(seq)}

Prefix(seq, n) == SubSeq(seq, 1, n)

----------------------------------------------------------------------------
(* Arrays *)

\* Array.prototype.slice(0, n): a negative n counts from the end
Slice0(seq, n) ==
    IF n >= 0 THEN Prefix(seq, Min(n, Len(seq)))
    ELSE Prefix(seq, Max(Len(seq) + n, 0))

\* Array.prototype.shift(): the array without its first element
Shift(seq) == IF seq = <<>> THEN seq ELSE Tail(seq)

\* the sequence without its element at index i (splice(i, 1), i counted from 1)
RemoveAt(seq, i) == [k \in 1 .. Len(seq) - 1 |-> IF k < i THEN seq[k] ELSE seq[k + 1]]

----------------------------------------------------------------------------
(* Boids: public/scripts/boids-simulation.js *)

\* the drawable size of the canvas
boidsCanvas == [width |-> 200 * Unit, height |-> 200 * Unit]

neighborRadius == 50 * Unit

separationRadius == 25 * Unit

\* the margin of boundaryForce
boidsMargin == 50 * Unit

\* the default boid population (150 in the source), scaled down
InitBoidCount == 2

boidsParams ==
    [boidCount |-> InitBoidCount,
     maxSpeed |-> 2 * Unit,
     maxForce |-> 3,
     separationWeight |-> 150,
     alignmentWeight |-> Unit,
     cohesionWeight |-> Unit,
     trailLength |-> 2,
     showTrails |-> TRUE]

\* what Math.random() gives a new boid: position and velocity.  Two boids one
\* unit apart, the second faster than maxSpeed; a third alone, next to the
\* bottom edge; a fourth within neighborRadius of the first two.
BoidSamples ==
    <<[x |-> 100 * Unit, y |-> 100 * Unit, vx |-> Unit, vy |-> 0],
      [x |-> 101 * Unit, y |-> 100 * Unit, vx |-> -2 * Unit, vy |-> Unit],
      [x |-> 10 * Unit, y |-> 199 * Unit, vx |-> -150, vy |-> 150],
      [x |-> 130 * Unit, y |-> 100 * Unit, vx |-> 50, vy |-> -50]>>

\* the k-th draw of a handler run that starts at position r of the stream
Draw(samples, r, k) == samples[((r + k - 1) % Len(samples)) + 1]

RngPeriod == 3 * 4

Seeds == 0 .. NumSeeds - 1

\* the position of the stream after n draws
Advance(r, n) == (r + Max(n, 0)) % RngPeriod

newBoid(r) == [x |-> r.x, y |-> r.y, vx |-> r.vx, vy |-> r.vy, ax |-> 0, ay |-> 0]

\* an array of n new boids, drawn from position r of the stream on
NewBoids(n, r) == [i \in 1 .. n |-> newBoid(Draw(BoidSamples, r, i))]

NoTrails(n) == [i \in 1 .. n |-> <<>>]

distance(a, b) == Hypot(a.x - b.x, a.y - b.y)

\* the neighbours of boid, as indices into s.boids, in array order
RECURSIVE getNeighborsFrom(_, _, _, _)
getNeighborsFrom(s, boid, index, i) ==
    IF i > Len(s.boids) THEN <<>>
    ELSE IF i = index THEN getNeighborsFrom(s, boid, index, i + 1)
    ELSE IF distance(boid, s.boids[i]) < neighborRadius
         THEN <<i>> \o getNeighborsFrom(s, boid, index, i + 1)
         ELSE getNeighborsFrom(s, boid, index, i + 1)

\* getNeighbors without the test that skips the boid itself
getNeighborsWithSelf(s, boid, index) == getNeighborsFrom(s, boid, 0, 1)

getNeighbors(s, boid, index) == getNeighborsFrom(s, boid, index, 1)

\* the sum of f over a sequence of vectors
RECURSIVE VecSum(_)
VecSum(vs) ==
    IF vs = <<>> THEN Zero
    ELSE LET r == VecSum(Tail(vs))
         IN  Vec(Head(vs).x + r.x, Head(vs).y + r.y)

VecAdd(a, b) == Vec(a.x + b.x, a.y + b.y)

VecSub(a, b) == Vec(a.x - b.x, a.y - b.y)

\* v times the fixed-point factor w
VecMul(v, w) == Vec(Mul(v.x, w), Mul(v.y, w))

\* v divided by the integer n
VecDiv(v, n) == Vec(Div(v.x, n), Div(v.y, n))

\* v scaled to length len (v / mag * len), mag = |v| > 0
Scaled(v, mag, len) == Vec(Mul(Quot(v.x, mag), len), Mul(Quot(v.y, mag), len))

\* limit without the limit
unlimited(v, max) == v

\* v if it is no longer than max, else v scaled to length max
limit(v, max) ==
    LET mag == Hypot(v.x, v.y)
    IN  IF mag > max THEN Scaled(v, mag, max) ELSE v

\* the end of separate and align: steer, if it is not zero, set to maxSpeed and
\* the boid's velocity taken off
steerOf(s, boid, steer) ==
    LET mag == Hypot(steer.x, steer.y)
    IN  IF mag > 0
        THEN VecSub(Scaled(steer, mag, s.params.maxSpeed), Vec(boid.vx, boid.vy))
        ELSE steer

\* diff of separate: away from other, weighted by distance (normalised, then
\* divided by the distance)
awayFrom(boid, other) ==
    LET dx == boid.x - other.x
        dy == boid.y - other.y
        mag == Hypot(dx, dy)
    IN  IF mag > 0
        THEN Vec(Div(dx * Unit * Unit, mag * mag), Div(dy * Unit * Unit, mag * mag))
        ELSE Vec(dx, dy)

separate(s, boid, neighbors) ==
    LET close == SelectSeq(neighbors,
                     LAMBDA j : /\ distance(boid, s.boids[j]) < separationRadius
                                /\ distance(boid, s.boids[j]) > 0)
    IN  IF Len(close) > 0
        THEN steerOf(s, boid,
                     VecDiv(VecSum([k \in Indices(close) |-> awayFrom(boid, s.boids[close[k]])]),
                            Len(close)))
        ELSE Zero

align(s, boid, neighbors) ==
    IF Len(neighbors) = 0 THEN Zero
    ELSE steerOf(s, boid,
                 VecDiv(VecSum([k \in Indices(neighbors) |->
                                   Vec(s.boids[neighbors[k]].vx, s.boids[neighbors[k]].vy)]),
                        Len(neighbors)))

seek(s, boid, target) ==
    LET raw == Vec(target.x - boid.x, target.y - boid.y)
        mag == Hypot(raw.x, raw.y)
    IN  VecSub(IF mag > 0 THEN Scaled(raw, mag, s.params.maxSpeed) ELSE raw,
               Vec(boid.vx, boid.vy))

getCenterOfMass(s, neighbors) ==
    IF Len(neighbors) = 0 THEN Zero
    ELSE VecDiv(VecSum([k \in Indices(neighbors) |->
                          Vec(s.boids[neighbors[k]].x, s.boids[neighbors[k]].y)]),
                Len(neighbors))

\* the inward push of one axis: pos is the coordinate, size the canvas extent
boundaryPush(pos, size) ==
    IF pos < boidsMargin
    THEN Mul(Quot(boidsMargin - pos, boidsMargin), 50)
    ELSE IF pos > size - boidsMargin
         THEN -Mul(Quot(pos - (size - boidsMargin), boidsMargin), 50)
         ELSE 0

boundaryForce(boid) ==
    Vec(boundaryPush(boid.x, boidsCanvas.width), boundaryPush(boid.y, boidsCanvas.height))

\* the forces of updateBoids on boids[i], weighted and added up
combinedForce(s, i) ==
    LET boid == s.boids[i]
        neighbors == getNeighbors(s, boid, i)
    IN  VecAdd(VecAdd(IF s.mouseDown THEN VecMul(seek(s, boid, s.mousePos), 2 * Unit) ELSE Zero,
                      VecMul(separate(s, boid, neighbors), s.params.separationWeight)),
               VecAdd(VecAdd(VecMul(align(s, boid, neighbors), s.params.alignmentWeight),
                             VecMul(seek(s, boid, getCenterOfMass(s, neighbors)),
                                    s.params.cohesionWeight)),
                      boundaryForce(boid)))

\* the acceleration updateBoids stores in boids[i]: the forces, limited to maxForce
steeringForce(s, i) == limit(combinedForce(s, i), s.params.maxForce)

accelerated(boid, f) == [boid EXCEPT !.ax = f.x, !.ay = f.y]

\* first loop of updateBoids, from boid i on
RECURSIVE forcePass(_, _)
forcePass(s, i) ==
    IF i > Len(s.boids) THEN s
    ELSE forcePass([s EXCEPT !.boids[i] = accelerated(@, steeringForce(s, i))], i + 1)

\* "Limit speed"
limitSpeed(v, maxSpeed) == limit(v, maxSpeed)

\* "Wrap around edges" of one coordinate
wrap(pos, size) ==
    LET p == IF pos < 0 THEN size ELSE pos
    IN  IF p > size THEN 0 ELSE p

\* the trail of boid i after the boid moved to (x, y)
updateTrail(s, i, x, y) ==
    IF s.params.showTrails
    THEN LET pushed == Append(s.trails[i], Vec(x, y))
         IN  IF Len(pushed) > s.params.trailLength THEN Shift(pushed) ELSE pushed
    ELSE <<>>

\* one iteration of the second loop of updateBoids: boids[i] takes velocity v,
\* moves, leaves its trail and wraps
moveBoid(s, i, v) ==
    LET boid == s.boids[i]
    IN  [s EXCEPT !.boids[i] = [boid EXCEPT !.vx = v.x, !.vy = v.y,
                                            !.x = wrap(boid.x + v.x, boidsCanvas.width),
                                            !.y = wrap(boid.y + v.y, boidsCanvas.height)],
                  !.trails[i] = updateTrail(s, i, boid.x + v.x, boid.y + v.y)]

\* second loop of updateBoids, from boid i on
RECURSIVE movePass(_, _)
movePass(s, i) ==
    IF i > Len(s.boids) THEN s
    ELSE movePass(moveBoid(s, i, limitSpeed(Vec(s.boids[i].vx + s.boids[i].ax,
                                                s.boids[i].vy + s.boids[i].ay),
                                            s.params.maxSpeed)),
                  i + 1)

\* a tick that moves each boid as soon as its force is known, so that the
\* boids after it see it moved
RECURSIVE interleavedPass(_, _)
interleavedPass(s, i) ==
    IF i > Len(s.boids) THEN s
    ELSE interleavedPass(
             moveBoid(s, i, limitSpeed(Vec(s.boids[i].vx + steeringForce(s, i).x,
                                           s.boids[i].vy + steeringForce(s, i).y),
                                       s.params.maxSpeed)),
             i + 1)

updateBoidsInterleaved(s) == IF s.isPaused THEN s ELSE interleavedPass(s, 1)

updateBoids(s) == IF s.isPaused THEN s ELSE movePass(forcePass(s, 1), 1)

\* a resize that drops boids and leaves their trails behind
adjustBoidCountKeepTrails(s, fresh) ==
    LET currentCount == Len(s.boids)
        targetCount == s.params.boidCount
    IN  IF targetCount > currentCount
        THEN [s EXCEPT !.boids = s.boids \o fresh,
                       !.trails = s.trails \o NoTrails(Len(fresh))]
        ELSE IF targetCount < currentCount
             THEN [s EXCEPT !.boids = Slice0(s.boids, targetCount)]
             ELSE s

adjustBoidCount(s, fresh) ==
    LET currentCount == Len(s.boids)
        targetCount == s.params.boidCount
    IN  IF targetCount > currentCount
        THEN [s EXCEPT !.boids = s.boids \o fresh,
                       !.trails = s.trails \o NoTrails(Len(fresh))]
        ELSE IF targetCount < currentCount
             THEN [s EXCEPT !.boids = Slice0(s.boids, targetCount),
                            !.trails = Slice0(s.trails, targetCount)]
             ELSE s

createBoids(s, fresh) == [s EXCEPT !.boids = fresh, !.trails = NoTrails(Len(fresh))]

----------------------------------------------------------------------------
(* Boids: the handlers *)

\* a simulation that is not running in the specification at hand
Idle == [idle |-> TRUE]

Op(name, arg, before) == [name |-> name, arg |-> arg, before |-> before]

\* render() draws the scene and changes nothing of the simulation.  rendered is
\* an observation: the frames drawn so far
render(s) == [s EXCEPT !.rendered = @ + 1]

\* the values a population slider event carries (parseInt of the input's value)
CountInputs == -1 .. MaxCount

\* the values the maxSpeed and trailLength sliders carry
MaxSpeedInputs == {Unit}

TrailLengthInputs == {1}

\* where the pointer is on a mouse event
MouseSamples == {Vec(50 * Unit, 60 * Unit)}

notBoids == <<aquarium, colony, memoryGame, snakeGame>>

\* what a handler that draws no random number leaves alone
notBoidsRng == <<aquarium, colony, memoryGame, snakeGame, rng>>

\* new BoidsSimulation(): the constructor and init()
InitBoids ==
    /\ \E seed \in Seeds :
          /\ boidsSim = createBoids([params |-> boidsParams, boids |-> <<>>, trails |-> <<>>,
                                     isPaused |-> FALSE, mouseDown |-> FALSE,
                                     mousePos |-> Zero, rendered |-> 0],
                                    NewBoids(boidsParams.boidCount, seed))
          /\ rng = Advance(seed, boidsParams.boidCount)
    /\ aquarium = Idle
    /\ colony = Idle
    /\ op = Op("init", 0, Idle)
    /\ memoryGame = Idle
    /\ snakeGame = Idle
    /\ frames = 0
    /\ inputs = 0

Frame == frames < MaxFrames /\ frames' = frames + 1 /\ inputs' = inputs

Input == inputs < MaxInputs /\ inputs' = inputs + 1 /\ frames' = frames

\* animate(): updateBoids(), then render(), which changes no state
BoidsAnimate ==
    /\ boidsSim # Idle
    /\ Frame
    /\ boidsSim' = render(updateBoids(boidsSim))
    /\ op' = Op("animate", 0, boidsSim)
    /\ UNCHANGED notBoidsRng

\* 'input' on the boidCount slider
BoidsSetBoidCount ==
    \E n \in CountInputs :
       LET s == [boidsSim EXCEPT !.params.boidCount = n]
           added == n - Len(s.boids)
       IN  /\ boidsSim # Idle
           /\ Input
           /\ boidsSim' = adjustBoidCount(s, NewBoids(added, rng))
           /\ rng' = Advance(rng, added)
           /\ op' = Op("boidCount", n, boidsSim)
           /\ UNCHANGED notBoids

\* 'input' on the maxSpeed slider
BoidsSetMaxSpeed ==
    \E v \in MaxSpeedInputs :
       /\ boidsSim # Idle
       /\ Input
       /\ boidsSim' = [boidsSim EXCEPT !.params.maxSpeed = v]
       /\ op' = Op("maxSpeed", v, boidsSim)
       /\ UNCHANGED notBoidsRng

\* 'input' on the trailLength slider
BoidsSetTrailLength ==
    \E n \in TrailLengthInputs :
       /\ boidsSim # Idle
       /\ Input
       /\ boidsSim' = [boidsSim EXCEPT !.params.trailLength = n]
       /\ op' = Op("trailLength", n, boidsSim)
       /\ UNCHANGED notBoidsRng

\* 'change' on the showTrails checkbox
BoidsSetShowTrails ==
    \E checked \in BOOLEAN :
       /\ boidsSim # Idle
       /\ Input
       /\ boidsSim' = [boidsSim EXCEPT !.params.showTrails = checked,
                                       !.trails = IF checked THEN @ ELSE NoTrails(Len(@))]
       /\ op' = Op("showTrails", checked, boidsSim)
       /\ UNCHANGED notBoidsRng

\* 'click' on resetBtn
BoidsReset ==
    /\ boidsSim # Idle
    /\ Input
    /\ boidsSim' = createBoids(boidsSim, NewBoids(boidsSim.params.boidCount, rng))
    /\ rng' = Advance(rng, boidsSim.params.boidCount)
    /\ op' = Op("reset", 0, boidsSim)
    /\ UNCHANGED notBoids

\* what a click on pauseBtn does to isPaused
pauseClick(isPaused) == ~isPaused

\* 'click' on pauseBtn
BoidsPauseClick ==
    /\ boidsSim # Idle
    /\ UNCHANGED <<frames, inputs>>
    /\ boidsSim' = [boidsSim EXCEPT !.isPaused = pauseClick(@)]
    /\ op' = Op("pause", 0, boidsSim)
    /\ UNCHANGED notBoidsRng

\* 'mousedown' on the canvas
BoidsMouseDown ==
    \E p \in MouseSamples :
       /\ boidsSim # Idle
       /\ Input
       /\ boidsSim' = [boidsSim EXCEPT !.mouseDown = TRUE, !.mousePos = p]
       /\ op' = Op("mousedown", p, boidsSim)
       /\ UNCHANGED notBoidsRng

\* 'mouseup' and 'mouseleave' on the canvas
BoidsMouseUp ==
    /\ boidsSim # Idle
    /\ Input
    /\ boidsSim' = [boidsSim EXCEPT !.mouseDown = FALSE]
    /\ op' = Op("mouseup", 0, boidsSim)
    /\ UNCHANGED notBoidsRng

\* 'mousemove' on the canvas
BoidsMouseMove ==
    \E p \in MouseSamples :
       /\ boidsSim # Idle
       /\ Input
       /\ boidsSim' = [boidsSim EXCEPT !.mousePos = p]
       /\ op' = Op("mousemove", p, boidsSim)
       /\ UNCHANGED notBoidsRng

NextBoids ==
    \/ BoidsAnimate
    \/ BoidsSetBoidCount
    \/ BoidsSetMaxSpeed
    \/ BoidsSetTrailLength
    \/ BoidsSetShowTrails
    \/ BoidsReset
    \/ BoidsPauseClick
    \/ BoidsMouseDown
    \/ BoidsMouseUp
    \/ BoidsMouseMove

SpecBoids == InitBoids /\ [][NextBoids]_vars

\* velocities createBoids can give a boid: each component (Math.random() - 0.5) * 4
PairVelocities == {Vec(0, 0), Vec(Unit, 0), Vec(-190, -190)}

\* a page whose two boids createBoids placed one unit apart: the second lies
\* (0.6, 0.8) from the first
InitPair ==
    /\ \E v \in PairVelocities, w \in PairVelocities :
          boidsSim = createBoids([params |-> boidsParams, boids |-> <<>>, trails |-> <<>>,
                                  isPaused |-> FALSE, mouseDown |-> FALSE,
                                  mousePos |-> Zero, rendered |-> 0],
                                 <<newBoid([x |-> 100 * Unit, y |-> 100 * Unit,
                                            vx |-> v.x, vy |-> v.y]),
                                   newBoid([x |-> 100 * Unit + 60, y |-> 100 * Unit + 80,
                                            vx |-> w.x, vy |-> w.y])>>)
    /\ rng \in Seeds
    /\ aquarium = Idle
    /\ colony = Idle
    /\ op = Op("init", 0, Idle)
    /\ memoryGame = Idle
    /\ snakeGame = Idle
    /\ frames = 0
    /\ inputs = 0

SpecPair == InitPair /\ [][NextBoids]_vars

----------------------------------------------------------------------------
(* Aquarium: unnamed/part_001.  Fields that only the renderer reads (angle, *)
(* swimPhase, depth, color, bubbles, kelp) are left out.  currentTime is in *)
(* milliseconds.  A fish object's identity is its id.                       *)

aquariumCanvas == [width |-> 200 * Unit, height |-> 200 * Unit]

\* the default populations (60, 20, 8 and 2 in the source), scaled down
InitSmallFish == 2

InitMediumFish == 1

InitLargeFish == 1

InitSharks == 1

aquariumParams ==
    [smallFishCount |-> InitSmallFish,
     mediumFishCount |-> InitMediumFish,
     largeFishCount |-> InitLargeFish,
     sharkCount |-> InitSharks,
     huntingAggression |-> Unit,
     fearRadius |-> 80 * Unit,
     schoolingStrength |-> 150,
     swimmingSpeed |-> 120,
     panicResponse |-> 3 * Unit,
     currentStrength |-> 50,
     showTrails |-> TRUE,
     followMouse |-> FALSE]

fishTypes ==
    [small |-> [size |-> 8 * Unit, speed |-> 150, fearFactor |-> 2 * Unit],
     medium |-> [size |-> 15 * Unit, speed |-> 120, fearFactor |-> 150],
     large |-> [size |-> 25 * Unit, speed |-> 80, fearFactor |-> Unit],
     shark |-> [size |-> 40 * Unit, speed |-> 2 * Unit, fearFactor |-> 0]]

\* the ticks a shark rests after a catch
HuntCooldown == 180

\* the positions a fish's trail keeps
FishTrailLength == 20

\* the ticks a food particle lives
FoodLife == 600

\* what Math.random() gives a new fish: position, velocity, the draws for size
\* and speed, and the school.  The first two are a school within a shark's reach
\* of the tank's centre, the third swims into that reach, the fourth leaves the
\* tank on the left.
FishSamples ==
    <<[x |-> 110 * Unit, y |-> 100 * Unit, vx |-> 0, vy |-> 0, rsize |-> 50, rspeed |-> 50, school |-> 0],
      [x |-> 120 * Unit, y |-> 110 * Unit, vx |-> 20, vy |-> 0, rsize |-> 50, rspeed |-> 50, school |-> 0],
      [x |-> 143 * Unit, y |-> 100 * Unit, vx |-> -Unit, vy |-> 0, rsize |-> 0, rspeed |-> 99, school |-> 0],
      [x |-> Unit, y |-> 150 * Unit, vx |-> -Unit, vy |-> 0, rsize |-> 99, rspeed |-> 0, school |-> 3]>>

SharkSamples ==
    <<[x |-> 100 * Unit, y |-> 100 * Unit, vx |-> 0, vy |-> 0, rsize |-> 50, rspeed |-> 50, school |-> 0],
      [x |-> 60 * Unit, y |-> 160 * Unit, vx |-> 50, vy |-> -50, rsize |-> 20, rspeed |-> 80, school |-> 0]>>

\* (Math.random() - 0.5) * 0.1, twice: a shark's random exploration
JitterSamples == <<Vec(0, 0), Vec(4, -5), Vec(-5, 3)>>

\* what Math.random() gives a food particle: x offset and fallSpeed
FoodSamples == <<[dx |-> 0, fallSpeed |-> 50], [dx |-> -9 * Unit, fallSpeed |-> 99]>>

\* the particles one dropFood makes
FoodPerDrop == 5

createSingleFish(type, id, r) ==
    LET fishType == fishTypes[type]
    IN  [id |-> id, x |-> r.x, y |-> r.y, vx |-> r.vx, vy |-> r.vy, type |-> type,
         size |-> fishType.size + Mul(Mul(r.rsize - 50, fishType.size), 30),
         speed |-> Mul(fishType.speed, 80 + Mul(r.rspeed, 40)),
         schoolId |-> IF type = "small" THEN r.school ELSE -1,
         fearLevel |-> 0, huntCooldown |-> 0, trail |-> <<>>]

\* n new fish of a type with ids id+1 .. id+n, drawn from position r on
NewFish(type, n, id, r) ==
    [i \in 1 .. n |->
        createSingleFish(type, id + i,
                         Draw(IF type = "shark" THEN SharkSamples ELSE FishSamples, r, i))]

\* Math.sin of an angle in milliradians (Bhaskara's approximation)
Sin(mrad) ==
    LET a == mrad % 6283
        x == IF a > 3142 THEN a - 3142 ELSE a
        p == x * (3142 - x)
        v == (16 * p) \div ((5 * 3142 * 3142 - 4 * p) \div Unit)
    IN  IF a > 3142 THEN -v ELSE v

Cos(mrad) == Sin(mrad + 1571)

\* the fish of s.fish with the given id: its index, 0 if there is none (indexOf)
IndexOfId(fish, id) ==
    IF \E i \in Indices(fish) : fish[i].id = id
    THEN CHOOSE i \in Indices(fish) : fish[i].id = id
    ELSE 0

\* the separation of calculateSchoolingForce from one neighbour
apartFrom(fish, other) ==
    LET dx == other.x - fish.x
        dy == other.y - fish.y
        d == Hypot(dx, dy)
    IN  IF d < 20 * Unit /\ d > 0 THEN Vec(-Quot(dx, d), -Quot(dy, d)) ELSE Zero

calculateSchoolingForce(s, fish) ==
    LET near == SelectSeq(s.fish,
                    LAMBDA other : /\ other.id # fish.id
                                   /\ other.schoolId = fish.schoolId
                                   /\ Hypot(other.x - fish.x, other.y - fish.y) < 60 * Unit)
        neighbors == Len(near)
    IN  IF neighbors > 0
        THEN VecAdd(VecAdd(VecMul(VecSum([k \in Indices(near) |-> apartFrom(fish, near[k])]),
                                  2 * Unit),
                           VecDiv(VecSub(VecDiv(VecSum([k \in Indices(near) |->
                                                          Vec(near[k].vx, near[k].vy)]),
                                                neighbors),
                                         Vec(fish.vx, fish.vy)),
                                  2)),
                    VecDiv(VecDiv(VecSum([k \in Indices(near) |->
                                            Vec(near[k].x - fish.x, near[k].y - fish.y)]),
                                  neighbors),
                           100))
        ELSE Zero

\* calculateFearForce from shark k on: acc is the force so far and fear the
\* fish's fearLevel so far; the result is [force, fearLevel]
RECURSIVE fearFrom(_, _, _, _, _)
fearFrom(s, fish, k, acc, fear) ==
    IF k > Len(s.sharks) THEN [force |-> acc, fearLevel |-> fear]
    ELSE LET shark == s.sharks[k]
             dx == shark.x - fish.x
             dy == shark.y - fish.y
             d == Hypot(dx, dy)
         IN  IF d < s.params.fearRadius /\ d > 0
             THEN LET intensity == Quot(s.params.fearRadius - d, s.params.fearRadius)
                      panicMultiplier == IF fear > 50 THEN s.params.panicResponse ELSE Unit
                      fearFactor == fishTypes[fish.type].fearFactor
                      push(c) == Mul(Mul(Mul(Quot(c, d), intensity), fearFactor), panicMultiplier)
                  IN  fearFrom(s, fish, k + 1, Vec(acc.x - push(dx), acc.y - push(dy)),
                               Min(fear + Div(intensity, 10), Unit))
             ELSE fearFrom(s, fish, k + 1, acc, fear)

calculateFearForce(s, fish) == fearFrom(s, fish, 1, Zero, fish.fearLevel)

\* the first fish nearest to the shark among those closer than 150, as an index
\* into s.fish; 0 if there is none
closestFish(s, shark) ==
    LET dist(i) == Hypot(s.fish[i].x - shark.x, s.fish[i].y - shark.y)
        seen == {i \in Indices(s.fish) : dist(i) < 150 * Unit}
    IN  IF seen = {} THEN 0
        ELSE CHOOSE i \in seen :
                \A j \in seen : dist(i) < dist(j) \/ (dist(i) = dist(j) /\ i <= j)

calculateHuntingForce(s, shark) ==
    LET c == closestFish(s, shark)
    IN  IF c = 0 THEN Zero
        ELSE LET dx == s.fish[c].x - shark.x
                 dy == s.fish[c].y - shark.y
                 d == Hypot(dx, dy)
             IN  IF d > 0 THEN Vec(Quot(dx, d) * 2, Quot(dy, d) * 2) ELSE Zero

calculateFoodAttraction(s, fish) ==
    LET pull(food) ==
            LET dx == food.x - fish.x
                dy == food.y - fish.y
                d == Hypot(dx, dy)
            IN  IF d < 80 * Unit /\ d > 0
                THEN LET intensity == Quot(80 * Unit - d, 80 * Unit)
                     IN  Vec(Div(Mul(Quot(dx, d), intensity), 2),
                             Div(Mul(Quot(dy, d), intensity), 2))
                ELSE Zero
    IN  VecSum([k \in Indices(s.foodParticles) |-> pull(s.foodParticles[k])])

calculateMouseAttraction(s, fish) ==
    LET dx == s.mousePos.x - fish.x
        dy == s.mousePos.y - fish.y
        d == Hypot(dx, dy)
    IN  IF d > 0 /\ d < 200 * Unit
        THEN LET intensity == Quot(200 * Unit - d, 200 * Unit)
             IN  Vec(Mul(Quot(dx, d), intensity), Mul(Quot(dy, d), intensity))
        ELSE Zero

\* calculateBoundaryForce on one axis
aquariumPush(pos, size) ==
    IF pos < 50 * Unit THEN Quot(50 * Unit - pos, 50 * Unit)
    ELSE IF pos > size - 50 * Unit THEN -Quot(pos - (size - 50 * Unit), 50 * Unit)
         ELSE 0

calculateBoundaryForce(entity) ==
    Vec(aquariumPush(entity.x, aquariumCanvas.width),
        aquariumPush(entity.y, aquariumCanvas.height))

\* the water current on a fish
currentForce(s, fish) ==
    Vec(Mul(s.params.currentStrength, Div(Sin(s.currentTime \div 2 + Div(fish.x, 10)), 10)),
        Mul(s.params.currentStrength,
            Div(Cos((s.currentTime * 3) \div 10 + Div(fish.y, 10)), 20)))

\* the force on a fish in updateFish, before it is applied; fear is its fear force
fishForce(s, fish, fear) ==
    VecAdd(VecAdd(VecAdd(IF fish.type = "small" /\ s.params.schoolingStrength > 0
                         THEN VecMul(calculateSchoolingForce(s, fish),
                                     s.params.schoolingStrength)
                         ELSE Zero,
                         fear),
                  VecAdd(calculateFoodAttraction(s, fish),
                         IF s.params.followMouse
                         THEN VecDiv(calculateMouseAttraction(s, fish), 2)
                         ELSE Zero)),
           VecAdd(currentForce(s, fish), calculateBoundaryForce(fish)))

\* "Update trail" of a fish that moved to (x, y)
fishTrail(s, fish, x, y) ==
    IF s.params.showTrails
    THEN LET pushed == Append(fish.trail, [x |-> x, y |-> y, time |-> s.currentTime])
         IN  IF Len(pushed) > FishTrailLength THEN Shift(pushed) ELSE pushed
    ELSE fish.trail

\* the fish with velocity v applied and its fear decayed
swum(s, fish, v, fearLevel) ==
    [fish EXCEPT !.vx = v.x, !.vy = v.y, !.x = @ + v.x, !.y = @ + v.y,
                 !.trail = fishTrail(s, fish, fish.x + v.x, fish.y + v.y),
                 !.fearLevel = Mul(fearLevel, 95)]

\* the fish after its forces: fear is what calculateFearForce gave
afterFear(s, fish, fear) ==
    swum(s, fish,
         limitSpeed(VecAdd(Vec(fish.vx, fish.vy), VecDiv(fishForce(s, fish, fear.force), 10)),
                    Mul(fish.speed, s.params.swimmingSpeed)),
         fear.fearLevel)

\* one iteration of the loop of updateFish: the fish at index i, moved
movedFish(s, i) == afterFear(s, s.fish[i], calculateFearForce(s, s.fish[i]))

\* the loop of updateFish from index i on: each fish is moved in place
RECURSIVE fishPass(_, _)
fishPass(s, i) ==
    IF i > Len(s.fish) THEN s
    ELSE fishPass([s EXCEPT !.fish[i] = movedFish(s, i)], i + 1)

\* the schools that updateFish counts: schoolIds of three or more small fish
schoolsFormed(s) ==
    IF s.params.schoolingStrength > 0
    THEN Cardinality({id \in {s.fish[i].schoolId : i \in Indices(s.fish)} :
            Cardinality({i \in Indices(s.fish) :
                s.fish[i].type = "small" /\ s.fish[i].schoolId = id}) >= 3})
    ELSE 0

updateFish(s) ==
    [fishPass(s, 1) EXCEPT !.stats.schoolsFormed = schoolsFormed(s)]

\* the fish a shark at (x, y) of the given size catches: those closer than size
InReach(fish, shark) ==
    {i \in Indices(fish) : Hypot(shark.x - fish[i].x, shark.y - fish[i].y) < shark.size}

\* the sequence without the elements at the indices in gone
Without(seq, gone) ==
    LET keep == {i \in Indices(seq) : i \notin gone}
        RECURSIVE pick(_)
        pick(k) == IF k > Len(seq) THEN <<>>
                   ELSE IF k \in keep THEN <<seq[k]>> \o pick(k + 1) ELSE pick(k + 1)
    IN  pick(1)

\* checkSharkCatches for the shark at index k: every fish in reach is spliced out
checkSharkCatches(s, k) ==
    LET gone == InReach(s.fish, s.sharks[k])
    IN  IF gone = {} THEN s
        ELSE [s EXCEPT !.fish = Without(s.fish, gone),
                       !.sharks[k].huntCooldown = HuntCooldown,
                       !.stats.fishEaten = @ + Cardinality(gone)]

\* the force on a shark in updateSharks; jitter is its random exploration
sharkForce(s, shark, jitter) ==
    VecAdd(VecAdd(IF shark.huntCooldown <= 0
                  THEN VecMul(calculateHuntingForce(s, shark), s.params.huntingAggression)
                  ELSE Zero,
                  jitter),
           calculateBoundaryForce(shark))

\* the shark with velocity v applied and its cooldown counted down
sharkSwum(shark, v) ==
    [shark EXCEPT !.huntCooldown = IF shark.huntCooldown <= 0 THEN @ ELSE @ - 1,
                  !.vx = v.x, !.vy = v.y, !.x = @ + v.x, !.y = @ + v.y]

\* one iteration of the loop of updateSharks, without the catch: the shark at
\* index k, moved
movedShark(s, k, jitter) ==
    sharkSwum(s.sharks[k],
              limitSpeed(VecAdd(Vec(s.sharks[k].vx, s.sharks[k].vy),
                                VecDiv(sharkForce(s, s.sharks[k], jitter), 10)),
                         Mul(s.sharks[k].speed, s.params.swimmingSpeed)))

\* catchLog is an observation: per shark, its huntCooldown when its turn began,
\* the fish in its reach after it moved and the fish it removed
logged(cooldown, moved, caught, k) ==
    [caught EXCEPT !.catchLog =
        Append(@, [cooldown |-> cooldown,
                   inReach |-> Cardinality(InReach(moved.fish, moved.sharks[k])),
                   removed |-> Len(moved.fish) - Len(caught.fish),
                   eaten |-> caught.stats.fishEaten - moved.stats.fishEaten])]

\* the end of an iteration of updateSharks: the catch of the shark that moved
catchOf(cooldown, moved, k) == logged(cooldown, moved, checkSharkCatches(moved, k), k)

\* the loop of updateSharks from index k on
RECURSIVE sharkPass(_, _, _)
sharkPass(s, k, r) ==
    IF k > Len(s.sharks) THEN s
    ELSE sharkPass(catchOf(s.sharks[k].huntCooldown,
                           [s EXCEPT !.sharks[k] = movedShark(s, k, Draw(JitterSamples, r, k))],
                           k),
                   k + 1, r)

updateSharks(s, r) == sharkPass([s EXCEPT !.catchLog = <<>>], 1, r)

\* whether some fish eats the food particle: the particle is within its size
Eaten(s, food) ==
    \E j \in Indices(s.fish) :
        Hypot(food.x - s.fish[j].x, food.y - s.fish[j].y) < s.fish[j].size

\* splice(i, 1) of an index that may be past the end
Splice1(seq, i) == IF i \in Indices(seq) THEN RemoveAt(seq, i) ELSE seq

\* the loop of updateFood from index i down
RECURSIVE foodPass(_, _)
foodPass(s, i) ==
    IF i < 1 THEN s
    ELSE LET food == [s.foodParticles[i] EXCEPT !.y = @ + s.foodParticles[i].fallSpeed,
                                                !.life = @ - 1]
             fallen == [s EXCEPT !.foodParticles[i] = food]
             expired == IF food.y > aquariumCanvas.height \/ food.life <= 0
                        THEN [fallen EXCEPT !.foodParticles = Splice1(@, i)]
                        ELSE fallen
             eaten == IF Eaten(expired, food)
                      THEN [expired EXCEPT !.foodParticles = Splice1(@, i)]
                      ELSE expired
         IN  foodPass(eaten, i - 1)

updateFood(s) == foodPass(s, Len(s.foodParticles))

\* Math.round(a / b * 100) for a >= 0, b >= 0
Percent(a, b) ==
    IF b = 0 THEN (IF a = 0 THEN "NaN" ELSE "Infinity")
    ELSE (200 * a + b) \div (2 * b)

calculateEcosystemHealth(s) ==
    LET totalCreatures == Len(s.fish) + Len(s.sharks)
        expectedTotal == s.params.smallFishCount + s.params.mediumFishCount
                            + s.params.largeFishCount + s.params.sharkCount
    IN  [s EXCEPT !.stats.ecosystemHealth = Percent(totalCreatures, expectedTotal),
                  !.stats.totalFish = Len(s.fish)]

\* updateSimulation() without its test of isPaused
updateSimulationAlways(s, r) ==
    calculateEcosystemHealth(
        updateFood(updateSharks(updateFish([s EXCEPT !.currentTime = @ + 16]), r)))

\* updateSimulation(); r is the position of the random stream
updateSimulation(s, r) ==
    IF s.isPaused THEN s
    ELSE calculateEcosystemHealth(
            updateFood(updateSharks(updateFish([s EXCEPT !.currentTime = @ + 16]), r)))

\* the fish of a type, in array order
OfType(fish, type) == SelectSeq(fish, LAMBDA f : f.type = type)

\* adjustKind that only ever adds fish
adjustKindGrowOnly(s, type, target, r) ==
    LET have == Len(OfType(s.fish, type))
    IN  IF have < target
        THEN [s EXCEPT !.fish = @ \o NewFish(type, target - have, s.nextId, r),
                       !.nextId = @ + (target - have)]
        ELSE s

\* one kind's share of adjustFishPopulation: grow or shrink the fish of the type
\* to target.  A negative target never ends the shrinking loop: once the fish of
\* the type are gone, pop() gives undefined, indexOf gives -1 and splice(-1, 1)
\* removes the last fish of the array, again and again.
adjustKind(s, type, target, r) ==
    LET mine == OfType(s.fish, type)
        have == Len(mine)
    IN  IF s.hung THEN s
        ELSE IF target < 0 THEN [s EXCEPT !.fish = <<>>, !.hung = TRUE]
        ELSE IF have < target
             THEN [s EXCEPT !.fish = @ \o NewFish(type, target - have, s.nextId, r),
                            !.nextId = @ + (target - have)]
             ELSE LET gone == {IndexOfId(s.fish, mine[k].id) : k \in target + 1 .. have}
                  IN  [s EXCEPT !.fish = Without(@, gone)]

\* adjustKind on t, the aquarium after the kinds before this one, which drew from r
adjustNext(s, t, type, target, r) ==
    adjustKind(t, type, target, Advance(r, t.nextId - s.nextId))

\* adjustFishPopulation(): all three kinds, each to its own count
adjustFishPopulation(s, r) ==
    adjustNext(s,
               adjustNext(s, adjustKind(s, "small", s.params.smallFishCount, r),
                          "medium", s.params.mediumFishCount, r),
               "large", s.params.largeFishCount, r)

\* adjustSharkPopulation(): a negative count never ends the popping loop
adjustSharkPopulation(s, r) ==
    LET have == Len(s.sharks)
        target == s.params.sharkCount
    IN  IF target < 0 THEN [s EXCEPT !.sharks = <<>>, !.hung = TRUE]
        ELSE IF have < target
             THEN [s EXCEPT !.sharks = @ \o NewFish("shark", target - have, s.nextId, r),
                            !.nextId = @ + (target - have)]
             ELSE [s EXCEPT !.sharks = Prefix(@, target)]

createFish(s, r) ==
    LET p == s.params
        n1 == Max(p.smallFishCount, 0)
        n2 == Max(p.mediumFishCount, 0)
        n3 == Max(p.largeFishCount, 0)
        n4 == Max(p.sharkCount, 0)
    IN  [s EXCEPT !.fish = NewFish("small", n1, s.nextId, r)
                              \o NewFish("medium", n2, s.nextId + n1, Advance(r, n1))
                              \o NewFish("large", n3, s.nextId + n1 + n2, Advance(r, n1 + n2)),
                  !.sharks = NewFish("shark", n4, s.nextId + n1 + n2 + n3,
                                     Advance(r, n1 + n2 + n3)),
                  !.nextId = @ + n1 + n2 + n3 + n4]

dropFood(s, x, y, r) ==
    [s EXCEPT !.foodParticles = @ \o [i \in 1 .. FoodPerDrop |->
                                        [x |-> x + Draw(FoodSamples, r, i).dx, y |-> y,
                                         fallSpeed |-> Draw(FoodSamples, r, i).fallSpeed,
                                         life |-> FoodLife]],
              !.stats.foodDropped = @ + 1]

scareNearbyFish(s, x, y) ==
    LET scared(fish) ==
            LET dx == x - fish.x
                dy == y - fish.y
                d == Hypot(dx, dy)
            IN  IF d < 100 * Unit
                THEN [fish EXCEPT !.fearLevel = Unit,
                                  !.vx = @ - Quot(dx, d) * 5,
                                  !.vy = @ - Quot(dy, d) * 5]
                ELSE fish
    IN  [s EXCEPT !.fish = [i \in Indices(s.fish) |-> scared(s.fish[i])]]

handleCanvasInteraction(s, r) ==
    IF s.interactionMode = "feed" THEN dropFood(s, s.mousePos.x, s.mousePos.y, r)
    ELSE IF s.interactionMode = "scare" THEN scareNearbyFish(s, s.mousePos.x, s.mousePos.y)
         ELSE s

resetAquarium(s, r) ==
    [createFish(s, r) EXCEPT !.foodParticles = <<>>,
                             !.stats.fishEaten = 0,
                             !.stats.foodDropped = 0,
                             !.interactionMode = "observe"]

----------------------------------------------------------------------------
(* Aquarium: the handlers *)

SwimmingSpeedInputs == {80}

\* where the pointer is on a mouse event
AquariumMouseSamples == {Vec(115 * Unit, 105 * Unit), Vec(5 * Unit, 19940)}

notAquarium == <<boidsSim, colony, memoryGame, snakeGame>>

notAquariumRng == <<boidsSim, colony, memoryGame, snakeGame, rng>>

\* the creatures createFish draws
InitCreatures == InitSmallFish + InitMediumFish + InitLargeFish + InitSharks

\* new AquariumSimulation(): the constructor and init()
\* the aquarium of the constructor, before init() creates the fish
newAquarium ==
    [params |-> aquariumParams, fish |-> <<>>, sharks |-> <<>>,
     foodParticles |-> <<>>, currentTime |-> 0,
     isPaused |-> FALSE, interactionMode |-> "observe",
     mousePos |-> Zero,
     stats |-> [totalFish |-> 0, schoolsFormed |-> 0,
                fishEaten |-> 0, foodDropped |-> 0,
                ecosystemHealth |-> 100],
     nextId |-> 0, hung |-> FALSE, catchLog |-> <<>>,
     rendered |-> 0]

InitAquarium ==
    /\ \E seed \in Seeds :
          /\ aquarium = createFish(newAquarium, seed)
          /\ rng = Advance(seed, InitCreatures)
    /\ boidsSim = Idle
    /\ colony = Idle
    /\ op = Op("init", 0, Idle)
    /\ memoryGame = Idle
    /\ snakeGame = Idle
    /\ frames = 0
    /\ inputs = 0

\* the page runs: no handler is stuck in a loop
Running(s) == s # Idle /\ ~s.hung

\* animate(): updateSimulation(), then render(), which changes no state
AquariumAnimate ==
    /\ Running(aquarium)
    /\ Frame
    /\ aquarium' = render(updateSimulation(aquarium, rng))
    /\ rng' = Advance(rng, IF aquarium.isPaused THEN 0 ELSE Len(aquarium.sharks))
    /\ op' = Op("animate", 0, aquarium)
    /\ UNCHANGED notAquarium

\* 'input' on the smallFishCount, mediumFishCount or largeFishCount slider
AquariumSetFishCount ==
    \E kind \in {"smallFishCount", "mediumFishCount", "largeFishCount"}, n \in CountInputs :
       /\ Running(aquarium)
       /\ Input
       /\ aquarium' = adjustFishPopulation([aquarium EXCEPT !.params[kind] = n], rng)
       /\ rng' = Advance(rng, aquarium'.nextId - aquarium.nextId)
       /\ op' = Op(kind, n, aquarium)
       /\ UNCHANGED notAquarium

\* 'input' on the sharkCount slider
AquariumSetSharkCount ==
    \E n \in CountInputs :
       /\ Running(aquarium)
       /\ Input
       /\ aquarium' = adjustSharkPopulation([aquarium EXCEPT !.params.sharkCount = n], rng)
       /\ rng' = Advance(rng, aquarium'.nextId - aquarium.nextId)
       /\ op' = Op("sharkCount", n, aquarium)
       /\ UNCHANGED notAquarium

\* 'input' on the swimmingSpeed slider
AquariumSetSwimmingSpeed ==
    \E v \in SwimmingSpeedInputs :
       /\ Running(aquarium)
       /\ Input
       /\ aquarium' = [aquarium EXCEPT !.params.swimmingSpeed = v]
       /\ op' = Op("swimmingSpeed", v, aquarium)
       /\ UNCHANGED notAquariumRng

\* 'change' on the showTrails and followMouse checkboxes
AquariumSetCheckbox ==
    \E box \in {"showTrails", "followMouse"} :
       /\ Running(aquarium)
       /\ Input
       /\ aquarium' = [aquarium EXCEPT !.params[box] = ~@]
       /\ op' = Op(box, aquarium'.params[box], aquarium)
       /\ UNCHANGED notAquariumRng

\* 'click' on feedFish and scarefish
AquariumSetMode ==
    \E mode \in {"feed", "scare"} :
       /\ Running(aquarium)
       /\ UNCHANGED <<frames, inputs>>
       /\ aquarium' = [aquarium EXCEPT !.interactionMode = mode]
       /\ op' = Op("mode", mode, aquarium)
       /\ UNCHANGED notAquariumRng

\* 'mousedown' on the canvas: updateMousePos, then handleCanvasInteraction
AquariumMouseDown ==
    \E p \in AquariumMouseSamples :
       /\ Running(aquarium)
       /\ \A i \in Indices(aquarium.fish) : aquarium.fish[i].x # p.x \/ aquarium.fish[i].y # p.y
       /\ Input
       /\ aquarium' = handleCanvasInteraction([aquarium EXCEPT !.mousePos = p], rng)
       /\ rng' = Advance(rng, IF aquarium.interactionMode = "feed" THEN FoodPerDrop ELSE 0)
       /\ op' = Op("mousedown", p, aquarium)
       /\ UNCHANGED notAquarium

\* 'mousemove' on the canvas
AquariumMouseMove ==
    \E p \in AquariumMouseSamples :
       /\ Running(aquarium)
       /\ Input
       /\ aquarium' = [aquarium EXCEPT !.mousePos = p]
       /\ op' = Op("mousemove", p, aquarium)
       /\ UNCHANGED notAquariumRng

\* 'click' on resetAquarium
AquariumReset ==
    /\ Running(aquarium)
    /\ Input
    /\ aquarium' = resetAquarium(aquarium, rng)
    /\ rng' = Advance(rng, aquarium'.nextId - aquarium.nextId)
    /\ op' = Op("reset", 0, aquarium)
    /\ UNCHANGED notAquarium

\* 'click' on pauseBtn
AquariumPauseClick ==
    /\ Running(aquarium)
    /\ UNCHANGED <<frames, inputs>>
    /\ aquarium' = [aquarium EXCEPT !.isPaused = pauseClick(@)]
    /\ op' = Op("pause", 0, aquarium)
    /\ UNCHANGED notAquariumRng

NextAquarium ==
    \/ AquariumAnimate
    \/ AquariumSetFishCount
    \/ AquariumSetSharkCount
    \/ AquariumSetSwimmingSpeed
    \/ AquariumSetCheckbox
    \/ AquariumSetMode
    \/ AquariumMouseDown
    \/ AquariumMouseMove
    \/ AquariumReset
    \/ AquariumPauseClick

SpecAquarium == InitAquarium /\ [][NextAquarium]_vars

\* where the first small fish has swum to, and where food is dropped beside it
BottomEdge == [fish |-> Vec(88 * Unit, 19950), food |-> Vec(100 * Unit, 19940)]

\* an aquarium later in a run: the first small fish rests at the bottom edge,
\* and a mousedown in feed mode has just dropped food beside it
InitFeeding ==
    /\ \E seed \in Seeds :
          \E rested \in {[createFish(newAquarium, seed)
                           EXCEPT !.fish[1].x = BottomEdge.fish.x,
                                  !.fish[1].y = BottomEdge.fish.y,
                                  !.fish[1].vx = 0, !.fish[1].vy = 0,
                                  !.interactionMode = "feed",
                                  !.mousePos = BottomEdge.food]} :
             /\ aquarium = dropFood(rested, BottomEdge.food.x, BottomEdge.food.y,
                                    Advance(seed, InitCreatures))
             /\ rng = Advance(seed, InitCreatures + FoodPerDrop)
             /\ op = Op("mousedown", BottomEdge.food, rested)
    /\ boidsSim = Idle
    /\ colony = Idle
    /\ memoryGame = Idle
    /\ snakeGame = Idle
    /\ frames = 0
    /\ inputs = 0

\* feeding: frames, and the pointer, mode and pause events
NextFeeding ==
    \/ AquariumAnimate
    \/ AquariumSetMode
    \/ AquariumMouseDown
    \/ AquariumMouseMove
    \/ AquariumPauseClick

SpecFeeding == InitFeeding /\ [][NextFeeding]_vars

----------------------------------------------------------------------------
(* Ant colony (public/scripts/ant-colony.js) *)

Milli == 10 * Unit

\* pixels per grid cell
pheromoneGridResolution == 4 * Unit

\* the canvas the page gives the colony
colonyCanvas == [width |-> 100 * Unit, height |-> 90 * Unit]

InitAntCount == 2

colonyParams ==
    [antCount |-> InitAntCount, antSpeed |-> 150, pheromoneStrength |-> Milli,
     evaporationRate |-> 5, explorationRate |-> 10, pheromoneSensitivity |-> 5 * Unit,
     searchRadius |-> 40 * Unit]

\* what Math.random() gives a new ant: the angle and distance of its place
\* from the nest and its heading
AntSamples ==
    <<[angle |-> 2208, distance |-> 29 * Unit, heading |-> 2208],
      [angle |-> 0, distance |-> 29 * Unit, heading |-> 0],
      [angle |-> 1571, distance |-> 0, heading |-> 4712],
      [angle |-> 5550, distance |-> 2018, heading |-> 6100],
      [angle |-> 3661, distance |-> 2820, heading |-> 3661]>>

\* what Math.random() gives during a tick
UniformSamples == <<50, 5, 90>>

Random(r) == Draw(UniformSamples, r, 1)

\* an angle of 0 .. 2 pi as atan2 gives it, in -pi .. pi
signed(a) == IF a > 3142 THEN a - 6283 ELSE a

\* Math.atan2(y, x), to the nearest of 64 headings
Atan2(y, x) ==
    IF x = 0 /\ y = 0 THEN 0
    ELSE LET heading(k) == (k * 6283) \div 64
             dot(k) == x * Cos(heading(k)) + y * Sin(heading(k))
         IN  signed(heading(CHOOSE k \in 0 .. 63 : \A g \in 0 .. 63 : dot(k) >= dot(g)))

newAnt(nest, r) ==
    [x |-> nest.x + Mul(Cos(r.angle), r.distance),
     y |-> nest.y + Mul(Sin(r.angle), r.distance),
     angle |-> r.heading, hasFood |-> FALSE]

\* n new ants, drawn from position r on
NewAnts(nest, n, r) == [i \in 1 .. n |-> newAnt(nest, Draw(AntSamples, r, i))]

Ceil(a, b) == (a + b - 1) \div b

\* a grid that keeps one cell when the canvas has no area
setupPheromoneGridOneCell(s) ==
    LET w == Ceil(s.canvas.width, pheromoneGridResolution)
        h == Ceil(s.canvas.height, pheromoneGridResolution)
    IN  [s EXCEPT !.pheromoneGridWidth = w,
                  !.pheromoneGridHeight = h,
                  !.pheromoneGrid = [i \in 1 .. Max(1, w * h) |-> [toFood |-> 0, toNest |-> 0]]]

\* setupPheromoneGrid(): cell index i of the code is element i + 1
setupPheromoneGrid(s) ==
    LET w == Ceil(s.canvas.width, pheromoneGridResolution)
        h == Ceil(s.canvas.height, pheromoneGridResolution)
    IN  [s EXCEPT !.pheromoneGridWidth = w,
                  !.pheromoneGridHeight = h,
                  !.pheromoneGrid = [i \in 1 .. w * h |-> [toFood |-> 0, toNest |-> 0]]]

createNest(s) ==
    [s EXCEPT !.nest = Vec(s.canvas.width \div 2, s.canvas.height \div 2)]

createAnts(s, r) == [s EXCEPT !.ants = NewAnts(s.nest, Max(s.params.antCount, 0), r)]

newFood(x, y) == [x |-> x, y |-> y, amount |-> 100, maxAmount |-> 100]

addInitialFood(s) ==
    LET w == s.canvas.width
        h == s.canvas.height
    IN  [s EXCEPT !.foodSources = @ \o <<newFood((2 * w) \div 10, (3 * h) \div 10),
                                         newFood((8 * w) \div 10, (7 * h) \div 10),
                                         newFood((3 * w) \div 10, (8 * h) \div 10)>>]

\* addFoodAtPosition(e), the click at canvas position (x, y)
addFoodAtPosition(s, x, y) ==
    IF Hypot(x - s.nest.x, y - s.nest.y) > 50 * Unit
    THEN [s EXCEPT !.foodSources = Append(@, newFood(x, y))]
    ELSE s

\* findNearbyFood(ant): the index of the food found, 0 for null
findNearbyFood(s, ant) ==
    LET near == {k \in Indices(s.foodSources) :
                    /\ Hypot(ant.x - s.foodSources[k].x, ant.y - s.foodSources[k].y) < 15 * Unit
                    /\ s.foodSources[k].amount > 0}
    IN  IF near = {} THEN 0 ELSE CHOOSE k \in near : \A j \in near : k <= j

removeFoodSource(s, k) == [s EXCEPT !.foodSources = RemoveAt(@, k)]

\* the index of the cell of a point, as the code computes it
cellIndex(s, x, y) ==
    (y \div pheromoneGridResolution) * s.pheromoneGridWidth + (x \div pheromoneGridResolution)

dropPheromone(s, ant) ==
    LET index == cellIndex(s, ant.x, ant.y)
    IN  IF index >= 0 /\ index < Len(s.pheromoneGrid)
        THEN IF ant.hasFood
             THEN [s EXCEPT !.pheromoneGrid[index + 1].toFood = @ + s.params.pheromoneStrength]
             ELSE [s EXCEPT !.pheromoneGrid[index + 1].toNest =
                               @ + Div(s.params.pheromoneStrength * 3, 10)]
        ELSE s

headingAngle(k) == (k * 3142) \div 8

\* the level of the cell at index: -1 when the index is off the grid
levelAt(s, index, type) ==
    IF index >= 0 /\ index < Len(s.pheromoneGrid)
    THEN s.pheromoneGrid[index + 1][type]
    ELSE -1

\* the level samplePheromone reads along heading k
sampleAt(s, ant, type, k) ==
    levelAt(s,
            cellIndex(s, ant.x + Mul(Cos(headingAngle(k)), s.params.searchRadius),
                         ant.y + Mul(Sin(headingAngle(k)), s.params.searchRadius)),
            type)

\* [max, best] after a candidate of the given level along the given angle
better(acc, level, angle) ==
    IF level > acc.max THEN [max |-> level, best |-> angle] ELSE acc

\* the loop of samplePheromone from heading k on: [max, best], best -1 for null
RECURSIVE sampleFrom(_, _, _, _, _)
sampleFrom(s, ant, type, k, acc) ==
    IF k > 15 THEN acc
    ELSE sampleFrom(s, ant, type, k + 1,
                    better(acc, sampleAt(s, ant, type, k), headingAngle(k)))

\* "Apply sensitivity threshold"
aboveThreshold(s, found) ==
    IF found.max * s.params.pheromoneSensitivity > Milli * Unit THEN found.best ELSE -1

\* samplePheromone(ant, type): the direction, -1 for null
samplePheromone(s, ant, type) ==
    aboveThreshold(s, sampleFrom(s, ant, type, 0, [max |-> 0, best |-> -1]))

\* pheromoneDirection && Math.random() > explorationRate: null and 0 are falsy,
\* and the draw is made only for a truthy direction
Follows(s, direction, r) == direction > 0 /\ Random(r) > s.params.explorationRate

\* the draws of: if (pheromoneDirection && Math.random() > rate) ... else <one draw>
DrawsToSteer(s, direction, r) ==
    IF direction > 0 THEN (IF Follows(s, direction, r) THEN 1 ELSE 2) ELSE 1

\* the draw of the else branch
ElseDraw(direction, r) == IF direction > 0 THEN Random(Advance(r, 1)) ELSE Random(r)

\* ant.angle = pheromoneDirection, or the else branch: base plus a spread draw
headingTaken(s, direction, r, base, spread) ==
    IF Follows(s, direction, r) THEN direction
    ELSE base + (ElseDraw(direction, r) - 50) * spread

\* the ant at index i follows the direction or takes its fallback heading, base
\* plus a draw spread by the given factor: the colony and the stream after it
\* turns is an observation: per ant that sampled pheromone in the tick, the
\* direction it found, the next value of the stream and the angle it took
steered(s, i, r, direction, base, spread) ==
    [s |-> [s EXCEPT !.ants[i].angle = headingTaken(s, direction, r, base, spread),
                     !.turns = Append(@, [direction |-> direction, draw |-> Random(r),
                                          angle |-> headingTaken(s, direction, r, base, spread)])],
     r |-> Advance(r, DrawsToSteer(s, direction, r))]

\* a pickup that leaves an empty food source in the world
keepWhenEmpty(taken, k) == taken

\* the food source at index k, one unit taken, is removed when it is empty
removeIfEmpty(taken, k) ==
    IF taken.foodSources[k].amount <= 0 THEN removeFoodSource(taken, k) ELSE taken

\* nearbyFood.amount -= 1, and the removal of the source when it is empty
took(s, k) == removeIfEmpty([s EXCEPT !.foodSources[k].amount = @ - 1], k)

\* pickups is an observation: per pickup of the tick, whether the ant carried
\* food already, the source it took from and the food sources before and after
noted(s, i, k, after) ==
    [after EXCEPT !.pickups = Append(@, [carried |-> s.ants[i].hasFood, source |-> k,
                                         before |-> s.foodSources,
                                         after |-> after.foodSources])]

\* the ant at index i takes a unit of the food source at index k.  taken is an
\* observation: the units taken since the last reset
pickUp(s, i, r, k) ==
    [s |-> [noted(s, i, k, took(s, k))
              EXCEPT !.ants[i].hasFood = TRUE,
                     !.ants[i].angle = Atan2(s.nest.y - s.ants[i].y, s.nest.x - s.ants[i].x)
                                          + (Random(r) - 50) * 5,
                     !.taken = @ + 1],
     r |-> Advance(r, 1)]

\* updateExploringAnt after findNearbyFood gave nearbyFood
explore(s, i, r, nearbyFood) ==
    IF nearbyFood # 0 THEN pickUp(s, i, r, nearbyFood)
    ELSE steered(s, i, r, samplePheromone(s, s.ants[i], "toFood"), s.ants[i].angle, 3)

\* updateExploringAnt for the ant at index i: the colony and the stream after it
updateExploringAnt(s, i, r) == explore(s, i, r, findNearbyFood(s, s.ants[i]))

\* a returning ant whose arrival at the nest is not counted
updateReturningAntUncounted(s, i, r) ==
    IF Hypot(s.ants[i].x - s.nest.x, s.ants[i].y - s.nest.y) < 20 * Unit
    THEN [s |-> [s EXCEPT !.ants[i].hasFood = FALSE,
                          !.ants[i].angle = (Random(r) * 6283) \div Unit],
          r |-> Advance(r, 1)]
    ELSE steered(s, i, r, samplePheromone(s, s.ants[i], "toNest"),
                 Atan2(s.nest.y - s.ants[i].y, s.nest.x - s.ants[i].x), 2)

\* updateReturningAnt for the ant at index i
updateReturningAnt(s, i, r) ==
    IF Hypot(s.ants[i].x - s.nest.x, s.ants[i].y - s.nest.y) < 20 * Unit
    THEN [s |-> [s EXCEPT !.ants[i].hasFood = FALSE,
                          !.ants[i].angle = (Random(r) * 6283) \div Unit,
                          !.stats.foodCollected = @ + 1],
          r |-> Advance(r, 1)]
    ELSE steered(s, i, r, samplePheromone(s, s.ants[i], "toNest"),
                 Atan2(s.nest.y - s.ants[i].y, s.nest.x - s.ants[i].x), 2)

\* the channel an ant deposits on and the amount it deposits
channelOf(ant) == IF ant.hasFood THEN "toFood" ELSE "toNest"

amountOf(s, ant) ==
    IF ant.hasFood THEN s.params.pheromoneStrength ELSE Div(s.params.pheromoneStrength * 3, 10)

\* the cells (indices of the code) that differ between two grids of one size
changedCells(before, after) ==
    {c - 1 : c \in {c \in Indices(before) : before[c] # after[c]}}

\* deposits is an observation: what each dropPheromone of the tick was given
\* (the ant's place, channel and amount), the cells it changed, and the level
\* of the channel in the cell of the ant's place after it
deposited(before, after, ant) ==
    [after EXCEPT !.deposits =
        Append(@, [x |-> ant.x, y |-> ant.y, type |-> channelOf(ant),
                   amount |-> amountOf(before, ant),
                   changed |-> changedCells(before.pheromoneGrid, after.pheromoneGrid),
                   level |-> levelAt(after, cellIndex(after, ant.x, ant.y), channelOf(ant))])]

\* dropPheromone(ant) on colony t, observed
dropped(t, ant) == deposited(t, dropPheromone(t, ant), ant)

\* the ant in its new place drops its pheromone
placed(s, i, moved) == dropped([s EXCEPT !.ants[i] = moved], moved)

\* the rest of an iteration of updateAnts: move, keep in bounds, drop pheromone
moveAnt(s, i) ==
    placed(s, i,
           [s.ants[i] EXCEPT
               !.x = Max(0, Min(s.canvas.width, @ + Mul(Cos(s.ants[i].angle), s.params.antSpeed))),
               !.y = Max(0, Min(s.canvas.height, @ + Mul(Sin(s.ants[i].angle), s.params.antSpeed)))])

\* the statistics of updateAnts count the ant as it was when its turn began
counted(s, hadFood) ==
    IF hadFood THEN [s EXCEPT !.stats.returningAnts = @ + 1]
    ELSE [s EXCEPT !.stats.exploringAnts = @ + 1]

RECURSIVE antPass(_, _, _)

\* the end of an iteration of updateAnts and the iterations after it; turned is
\* the colony and the stream after the ant at index i chose its heading
antMoves(s, i, turned) ==
    antPass(moveAnt(counted(turned.s, s.ants[i].hasFood), i), i + 1, turned.r)

\* the loop of updateAnts from index i on
antPass(s, i, r) ==
    IF i > Len(s.ants) THEN [s |-> s, r |-> r]
    ELSE antMoves(s, i, IF s.ants[i].hasFood
                        THEN updateReturningAnt(s, i, r)
                        ELSE updateExploringAnt(s, i, r))

updateAnts(s, r) ==
    IF s.isPaused THEN [s |-> s, r |-> r]
    ELSE antPass([s EXCEPT !.stats.exploringAnts = 0, !.stats.returningAnts = 0,
                           !.deposits = <<>>, !.turns = <<>>, !.pickups = <<>>], 1, r)

\* one cell's evaporation
evaporate(level, rate) == Div(level * (Milli - rate), Milli)

updatePheromones(s) ==
    IF s.isPaused THEN s
    ELSE LET grid == [i \in Indices(s.pheromoneGrid) |->
                         [toFood |-> evaporate(s.pheromoneGrid[i].toFood, s.params.evaporationRate),
                          toNest |-> evaporate(s.pheromoneGrid[i].toNest, s.params.evaporationRate)]]
         IN  [s EXCEPT !.pheromoneGrid = grid,
                       !.stats.activeTrails =
                           Cardinality({i \in Indices(grid) :
                                          grid[i].toFood > 100 \/ grid[i].toNest > 100})]

adjustAntCount(s, r) ==
    LET currentCount == Len(s.ants)
        targetCount == s.params.antCount
    IN  IF targetCount > currentCount
        THEN [s EXCEPT !.ants = @ \o NewAnts(s.nest, targetCount - currentCount, r)]
        ELSE IF targetCount < currentCount
             THEN [s EXCEPT !.ants = Slice0(@, targetCount)]
             ELSE s

resetColony(s, r) ==
    addInitialFood([createAnts(setupPheromoneGrid(s), r) EXCEPT !.stats.foodCollected = 0,
                                                                !.taken = 0])

\* resizeCanvas(): the canvas takes the size of its box
resizeCanvas(s, size) ==
    setupPheromoneGrid([s EXCEPT !.canvas = size,
                                 !.nest = Vec(size.width \div 2, size.height \div 2)])

----------------------------------------------------------------------------
(* Ant colony: the handlers *)

\* the values the parameter sliders carry (parseFloat of the input's value)
ColonyParamInputs == {<<"antSpeed", 15 * Unit>>, <<"evaporationRate", Milli + 500>>}

\* where a click lands on the canvas
ColonyClickSamples == {Vec(95 * Unit, 85 * Unit), Vec(60 * Unit, 45 * Unit)}

\* the sizes a window resize gives the canvas
CanvasSizes == {[width |-> 0, height |-> 0], [width |-> 100 * Unit, height |-> 0], colonyCanvas}

notColony == <<boidsSim, aquarium, memoryGame, snakeGame>>

notColonyRng == <<boidsSim, aquarium, memoryGame, snakeGame, rng>>

\* new AntColonySimulation(): the constructor and init(), the stream at seed
newColony(seed) ==
    addInitialFood(createAnts(createNest(setupPheromoneGrid(
        [params |-> colonyParams, canvas |-> colonyCanvas, nest |-> Zero,
         ants |-> <<>>, foodSources |-> <<>>, pheromoneGrid |-> <<>>,
         pheromoneGridWidth |-> 0, pheromoneGridHeight |-> 0,
         isPaused |-> FALSE, addingFood |-> TRUE,
         stats |-> [foodCollected |-> 0, activeTrails |-> 0,
                    exploringAnts |-> 0, returningAnts |-> 0],
         taken |-> 0, deposits |-> <<>>, turns |-> <<>>, pickups |-> <<>>,
         rendered |-> 0])), seed))

InitColony ==
    /\ \E seed \in Seeds :
          /\ colony = newColony(seed)
          /\ rng = Advance(seed, InitAntCount)
    /\ boidsSim = Idle
    /\ aquarium = Idle
    /\ op = Op("init", 0, Idle)
    /\ memoryGame = Idle
    /\ snakeGame = Idle
    /\ frames = 0
    /\ inputs = 0

\* a frame that evaporates before the ants move and deposit
ColonyAnimateDecayFirst ==
    /\ colony # Idle
    /\ Frame
    /\ \E after \in {updateAnts(updatePheromones(colony), rng)} :
          /\ colony' = render(after.s)
          /\ rng' = after.r
    /\ op' = Op("animate", 0, colony)
    /\ UNCHANGED notColony

\* animate(): updateAnts(), updatePheromones(), then render(), which changes no state
ColonyAnimate ==
    /\ colony # Idle
    /\ Frame
    /\ \E after \in {updateAnts(colony, rng)} :
          /\ colony' = render(updatePheromones(after.s))
          /\ rng' = after.r
    /\ op' = Op("animate", 0, colony)
    /\ UNCHANGED notColony

\* 'input' on the antCount slider
ColonySetAntCount ==
    \E n \in CountInputs :
       /\ colony # Idle
       /\ Input
       /\ colony' = adjustAntCount([colony EXCEPT !.params.antCount = n], rng)
       /\ rng' = Advance(rng, Len(colony'.ants) - Len(colony.ants))
       /\ op' = Op("antCount", n, colony)
       /\ UNCHANGED notColony

\* 'input' on a parameter slider
ColonySetParam ==
    \E in \in ColonyParamInputs :
       /\ colony # Idle
       /\ Input
       /\ colony' = [colony EXCEPT !.params[in[1]] = in[2]]
       /\ op' = Op(in[1], in[2], colony)
       /\ UNCHANGED notColonyRng

\* 'click' on the canvas
ColonyClick ==
    \E p \in ColonyClickSamples :
       /\ colony # Idle
       /\ Input
       /\ colony' = IF colony.addingFood THEN addFoodAtPosition(colony, p.x, p.y) ELSE colony
       /\ op' = Op("click", p, colony)
       /\ UNCHANGED notColonyRng

\* 'click' on clearFoodBtn
ColonyClearFood ==
    /\ colony # Idle
    /\ Input
    /\ colony' = [colony EXCEPT !.foodSources = <<>>]
    /\ op' = Op("clearFood", 0, colony)
    /\ UNCHANGED notColonyRng

\* 'click' on resetBtn
ColonyReset ==
    /\ colony # Idle
    /\ Input
    /\ colony' = resetColony(colony, rng)
    /\ rng' = Advance(rng, Len(colony'.ants))
    /\ op' = Op("reset", 0, colony)
    /\ UNCHANGED notColony

\* 'resize' of the window
ColonyResize ==
    \E size \in CanvasSizes :
       /\ colony # Idle
       /\ Input
       /\ colony' = resizeCanvas(colony, size)
       /\ op' = Op("resize", size, colony)
       /\ UNCHANGED notColonyRng

\* 'click' on pauseBtn
ColonyPauseClick ==
    /\ colony # Idle
    /\ UNCHANGED <<frames, inputs>>
    /\ colony' = [colony EXCEPT !.isPaused = pauseClick(@)]
    /\ op' = Op("pause", 0, colony)
    /\ UNCHANGED notColonyRng

NextColony ==
    \/ ColonyAnimate
    \/ ColonySetAntCount
    \/ ColonySetParam
    \/ ColonyClick
    \/ ColonyClearFood
    \/ ColonyReset
    \/ ColonyResize
    \/ ColonyPauseClick

SpecColony == InitColony /\ [][NextColony]_vars

\* what is left of the third initial food source late in a run
ForageAmounts == {1, 2}

\* a colony late in a run: the ants have carried all but a few units of the
\* third food source to the nest, and the ant count slider and a resize have
\* since replaced the ants and the grid
InitForage ==
    /\ \E seed \in Seeds : \E left \in ForageAmounts :
          /\ colony = [newColony(seed) EXCEPT !.foodSources[3].amount = left,
                                              !.taken = 100 - left,
                                              !.stats.foodCollected = 100 - left]
          /\ rng = Advance(seed, InitAntCount)
    /\ boidsSim = Idle
    /\ aquarium = Idle
    /\ op = Op("init", 0, Idle)
    /\ memoryGame = Idle
    /\ snakeGame = Idle
    /\ frames = 0
    /\ inputs = 0

SpecForage == InitForage /\ [][NextColony]_vars

----------------------------------------------------------------------------
(* The memory game (the last script of public/scripts/hangman.js) *)

\* pairs on the board: 8, 10 or 15 in the source, fewer here
MemoryPairs == 2

\* clicks on the page in one behaviour
MaxClicks == 5

\* half seconds the clock runs in one behaviour
MaxHalfSeconds == 3

\* delays of the two timeouts of flipCard, in half seconds
MatchDelay == 1
MismatchDelay == 2

CardIndexes == 1 .. (2 * MemoryPairs)

\* two of the orders shuffleArray can leave cardValues in
Deals ==
    { [i \in CardIndexes |-> ((i - 1) % MemoryPairs) + 1],
      [i \in CardIndexes |-> ((i - 1) \div 2) + 1] }

\* the card elements createCards builds; an element is told from the
\* elements of the boards before it by the game it was created for
createCards(game, cardValues) ==
    [i \in CardIndexes |-> [game |-> game, index |-> i, value |-> cardValues[i]]]

\* resetGameState leaves the timeouts of flipCard pending
resetGameState(s) ==
    [s EXCEPT !.cards = <<>>,
              !.flippedCards = <<>>,
              !.matchedPairs = 0,
              !.moves = 0,
              !.gameStarted = FALSE,
              !.canFlip = TRUE,
              !.totalPairsCount = MemoryPairs,
              !.ended = FALSE,
              !.staleFired = FALSE]

initMemoryGame(s, cardValues) ==
    [resetGameState(s) EXCEPT !.game = s.game + 1,
                              !.cards = createCards(s.game + 1, cardValues)]

startTimer(s) == [s EXCEPT !.gameStarted = TRUE]

Includes(cardSeq, card) == \E k \in 1 .. Len(cardSeq) : cardSeq[k] = card

\* the timeout flipCard sets for the two cards turned up
timeoutOf(s, card1, card2) ==
    [match |-> card1.value = card2.value,
     card1 |-> card1,
     card2 |-> card2,
     due   |-> s.now + (IF card1.value = card2.value THEN MatchDelay
                                                     ELSE MismatchDelay)]

processMove(s) ==
    [s EXCEPT !.moves = @ + 1,
              !.canFlip = FALSE,
              !.timeouts = Append(@, timeoutOf(s, s.flippedCards[1], s.flippedCards[2]))]

flipCard(s, card) ==
    IF ~s.canFlip \/ Includes(s.flippedCards, card) \/ card \in s.matched
    THEN s
    ELSE IF Len(s.flippedCards) + 1 = 2
         THEN processMove([s EXCEPT !.flippedCards = Append(@, card)])
         ELSE [s EXCEPT !.flippedCards = Append(@, card)]

endMemoryGame(s) == [s EXCEPT !.ended = TRUE]

\* the callback of a match
matchFound(s, t) ==
    IF s.matchedPairs + 1 = s.totalPairsCount
    THEN endMemoryGame([s EXCEPT !.matched = @ \cup {t.card1, t.card2},
                                 !.flippedCards = <<>>,
                                 !.canFlip = TRUE,
                                 !.matchedPairs = @ + 1])
    ELSE [s EXCEPT !.matched = @ \cup {t.card1, t.card2},
                   !.flippedCards = <<>>,
                   !.canFlip = TRUE,
                   !.matchedPairs = @ + 1]

\* the callback of a mismatch
flipBack(s, t) ==
    [s EXCEPT !.flippedCards = <<>>,
              !.canFlip = TRUE]

Spent(timeouts, k) ==
    SubSeq(timeouts, 1, k - 1) \o SubSeq(timeouts, k + 1, Len(timeouts))

\* a timeout runs once; one set for a board that has since been replaced
\* is noted
runTimeout(s, k) ==
    [(IF s.timeouts[k].match THEN matchFound(s, s.timeouts[k])
                             ELSE flipBack(s, s.timeouts[k]))
        EXCEPT !.timeouts = Spent(s.timeouts, k),
               !.staleFired = @ \/ s.timeouts[k].card1.game # s.game]

\* timeouts run in the order they fall due, those of one delay in the
\* order they were set
IsNext(timeouts, k, now) ==
    /\ timeouts[k].due <= now
    /\ \A j \in 1 .. Len(timeouts) :
          /\ timeouts[j].due >= timeouts[k].due
          /\ (j < k /\ timeouts[j].due = timeouts[k].due)
                => timeouts[j].match # timeouts[k].match

newMemoryPage ==
    [game            |-> 0,
     cards           |-> <<>>,
     flippedCards    |-> <<>>,
     matched         |-> {},
     matchedPairs    |-> 0,
     totalPairsCount |-> 8,
     moves           |-> 0,
     gameStarted     |-> FALSE,
     canFlip         |-> TRUE,
     timeouts        |-> <<>>,
     now             |-> 0,
     clicks          |-> 0,
     ended           |-> FALSE,
     staleFired      |-> FALSE]

notMemory == <<boidsSim, aquarium, colony, snakeGame, rng, frames, inputs>>

InitMemory ==
    /\ \E cardValues \in Deals : memoryGame = initMemoryGame(newMemoryPage, cardValues)
    /\ boidsSim = Idle
    /\ aquarium = Idle
    /\ colony = Idle
    /\ snakeGame = Idle
    /\ rng = 0
    /\ op = Op("init", 0, Idle)
    /\ frames = 0
    /\ inputs = 0

MemoryCardClick ==
    /\ memoryGame # Idle
    /\ memoryGame.clicks < MaxClicks
    /\ \E i \in CardIndexes :
          /\ memoryGame' = [startTimer(flipCard(memoryGame, memoryGame.cards[i]))
                               EXCEPT !.clicks = @ + 1]
          /\ op' = Op("flipCard", i, memoryGame)
    /\ UNCHANGED notMemory

MemoryStartClick ==
    /\ memoryGame # Idle
    /\ memoryGame.clicks < MaxClicks
    /\ \E cardValues \in Deals :
          /\ memoryGame' = [initMemoryGame(memoryGame, cardValues) EXCEPT !.clicks = @ + 1]
          /\ op' = Op("startButton", cardValues, memoryGame)
    /\ UNCHANGED notMemory

\* the result modal, and its button, show once the game has ended
MemoryPlayAgainClick ==
    /\ memoryGame # Idle
    /\ memoryGame.clicks < MaxClicks
    /\ memoryGame.ended
    /\ \E cardValues \in Deals :
          /\ memoryGame' = [initMemoryGame(memoryGame, cardValues) EXCEPT !.clicks = @ + 1]
          /\ op' = Op("playAgainButton", cardValues, memoryGame)
    /\ UNCHANGED notMemory

MemoryTimeout ==
    /\ memoryGame # Idle
    /\ \E k \in 1 .. Len(memoryGame.timeouts) :
          /\ IsNext(memoryGame.timeouts, k, memoryGame.now)
          /\ memoryGame' = runTimeout(memoryGame, k)
          /\ op' = Op("timeout", memoryGame.timeouts[k], memoryGame)
    /\ UNCHANGED notMemory

\* half a second passes once every timeout that was due has run
MemoryWait ==
    /\ memoryGame # Idle
    /\ memoryGame.now < MaxHalfSeconds
    /\ \A k \in 1 .. Len(memoryGame.timeouts) : memoryGame.timeouts[k].due > memoryGame.now
    /\ memoryGame' = [memoryGame EXCEPT !.now = @ + 1]
    /\ op' = Op("wait", 0, memoryGame)
    /\ UNCHANGED notMemory

NextMemory ==
    \/ MemoryCardClick
    \/ MemoryStartClick
    \/ MemoryPlayAgainClick
    \/ MemoryTimeout
    \/ MemoryWait

SpecMemory == InitMemory /\ [][NextMemory]_vars

----------------------------------------------------------------------------
(* The snake game (the second script of public/scripts/hangman.js) *)

\* key presses, clicks and interval ticks in one behaviour
MaxSnakeEvents == 5

GRID_SIZE == 20

\* the largest canvas setupCanvas allows, in pixels
MaxCanvas == 400

\* widths of the element that holds the canvas, in pixels
ContainerWidths == {100, 130}

\* cells Math.random picks for the food
FoodCells == {Vec(3, 2), Vec(4, 0)}

Directions == {"up", "down", "left", "right"}

Opposite(a, b) ==
    \/ a = "up" /\ b = "down"
    \/ a = "down" /\ b = "up"
    \/ a = "left" /\ b = "right"
    \/ a = "right" /\ b = "left"

\* the canvas is square: its height too is computed from containerWidth
setupCanvas(s, containerWidth) ==
    [s EXCEPT !.gridWidth = Min((containerWidth \div GRID_SIZE) * GRID_SIZE, MaxCanvas)
                                \div GRID_SIZE,
              !.gridHeight = Min((containerWidth \div GRID_SIZE) * GRID_SIZE, MaxCanvas)
                                 \div GRID_SIZE]

OnSnake(cells, at) == \E k \in 1 .. Len(cells) : cells[k] = at

\* the loop of createFood draws again until the cell is off the snake
createFood(s, at) == [s EXCEPT !.food = at]

startSnake(startX, startY) ==
    << Vec(startX, startY), Vec(startX - 1, startY), Vec(startX - 2, startY) >>

\* initGame once setupCanvas has run
placeSnake(s, at) ==
    [createFood([s EXCEPT !.snake = startSnake(s.gridWidth \div 2, s.gridHeight \div 2)], at)
        EXCEPT !.score = 0,
               !.direction = "right",
               !.nextDirection = "right",
               !.gameActive = FALSE,
               !.moves = 0,
               !.keys = <<>>]

initSnakeGame(s, containerWidth, at) == placeSnake(setupCanvas(s, containerWidth), at)

startGame(s) == IF s.gameActive THEN s ELSE [s EXCEPT !.gameActive = TRUE]

newHead(from, direction) ==
    CASE direction = "up"    -> Vec(from.x, from.y - 1)
      [] direction = "down"  -> Vec(from.x, from.y + 1)
      [] direction = "left"  -> Vec(from.x - 1, from.y)
      [] direction = "right" -> Vec(from.x + 1, from.y)

moveSnake(s) ==
    [s EXCEPT !.direction = s.nextDirection,
              !.snake = <<newHead(s.snake[1], s.nextDirection)>>
                            \o SubSeq(s.snake, 1, Len(s.snake) - 1)]

checkCollision(s) ==
    \/ s.snake[1].x < 0
    \/ s.snake[1].x >= s.gridWidth
    \/ s.snake[1].y < 0
    \/ s.snake[1].y >= s.gridHeight
    \/ \E i \in 2 .. Len(s.snake) : s.snake[i] = s.snake[1]

checkFood(s, at) ==
    IF s.snake[1] = s.food
    THEN [createFood(s, at) EXCEPT !.score = @ + 1,
                                   !.snake = Append(@, s.snake[Len(s.snake)])]
    ELSE s

endSnakeGame(s) ==
    [s EXCEPT !.gameActive = FALSE,
              !.highScore = IF s.score > @ THEN s.score ELSE @]

\* updateGame once moveSnake has run
afterMove(s, at) == IF checkCollision(s) THEN endSnakeGame(s) ELSE checkFood(s, at)

updateGame(s, at) == afterMove(moveSnake(s), at)

resetGame(s, containerWidth, at) == initSnakeGame(s, containerWidth, at)

clearHighScore(s) == [s EXCEPT !.highScore = 0]

changeDirectionAnyTurn(s, newDirection) ==
    startGame([s EXCEPT !.nextDirection = newDirection])

changeDirection(s, newDirection) ==
    IF Opposite(s.direction, newDirection)
    THEN s
    ELSE startGame([s EXCEPT !.nextDirection = newDirection])

newSnakePage ==
    [snake         |-> <<>>,
     food          |-> Vec(0, 0),
     direction     |-> "right",
     nextDirection |-> "right",
     score         |-> 0,
     highScore     |-> 0,
     gameActive    |-> FALSE,
     gridWidth     |-> 0,
     gridHeight    |-> 0,
     moves         |-> 0,
     keys          |-> <<>>,
     events        |-> 0]

notSnake == <<boidsSim, aquarium, colony, memoryGame, rng, frames, inputs>>

InitSnake ==
    /\ \E containerWidth \in ContainerWidths : \E at \in FoodCells :
          /\ ~OnSnake(initSnakeGame(newSnakePage, containerWidth, at).snake, at)
          /\ snakeGame = initSnakeGame(newSnakePage, containerWidth, at)
    /\ boidsSim = Idle
    /\ aquarium = Idle
    /\ colony = Idle
    /\ memoryGame = Idle
    /\ rng = 0
    /\ op = Op("init", 0, Idle)
    /\ frames = 0
    /\ inputs = 0

\* an arrow key, a control button or a swipe; keys lists the directions
\* asked for since the snake last moved
SnakeChangeDirection ==
    /\ snakeGame # Idle
    /\ snakeGame.events < MaxSnakeEvents
    /\ \E newDirection \in Directions :
          /\ snakeGame' = [changeDirection(snakeGame, newDirection)
                              EXCEPT !.keys = Append(@, newDirection),
                                     !.events = @ + 1]
          /\ op' = Op("changeDirection", newDirection, snakeGame)
    /\ UNCHANGED notSnake

\* the interval set by startGame runs updateGame while the game is active
SnakeUpdate ==
    /\ snakeGame # Idle
    /\ snakeGame.events < MaxSnakeEvents
    /\ snakeGame.gameActive
    /\ \E at \in FoodCells :
          /\ ~OnSnake(moveSnake(snakeGame).snake, at)
          /\ snakeGame' = [updateGame(snakeGame, at) EXCEPT !.moves = @ + 1,
                                                            !.keys = <<>>,
                                                            !.events = @ + 1]
          /\ op' = Op("updateGame", at, snakeGame)
    /\ UNCHANGED notSnake

SnakeStartClick ==
    /\ snakeGame # Idle
    /\ snakeGame.events < MaxSnakeEvents
    /\ snakeGame' = [startGame(snakeGame) EXCEPT !.events = @ + 1]
    /\ op' = Op("startButton", 0, snakeGame)
    /\ UNCHANGED notSnake

SnakeResetClick ==
    /\ snakeGame # Idle
    /\ snakeGame.events < MaxSnakeEvents
    /\ \E containerWidth \in ContainerWidths : \E at \in FoodCells :
          /\ ~OnSnake(resetGame(snakeGame, containerWidth, at).snake, at)
          /\ snakeGame' = [resetGame(snakeGame, containerWidth, at) EXCEPT !.events = @ + 1]
          /\ op' = Op("resetButton", containerWidth, snakeGame)
    /\ UNCHANGED notSnake

SnakeClearScoreClick ==
    /\ snakeGame # Idle
    /\ snakeGame.events < MaxSnakeEvents
    /\ snakeGame' = [clearHighScore(snakeGame) EXCEPT !.events = @ + 1]
    /\ op' = Op("clearScoreButton", 0, snakeGame)
    /\ UNCHANGED notSnake

\* the window is resized; nothing happens while the game is active
SnakeResize ==
    /\ snakeGame # Idle
    /\ snakeGame.events < MaxSnakeEvents
    /\ \E containerWidth \in ContainerWidths :
          /\ snakeGame' = [(IF snakeGame.gameActive THEN snakeGame
                            ELSE setupCanvas(snakeGame, containerWidth))
                              EXCEPT !.events = @ + 1]
          /\ op' = Op("resize", containerWidth, snakeGame)
    /\ UNCHANGED notSnake

NextSnake ==
    \/ SnakeChangeDirection
    \/ SnakeUpdate
    \/ SnakeStartClick
    \/ SnakeResetClick
    \/ SnakeClearScoreClick
    \/ SnakeResize

SpecSnake == InitSnake /\ [][NextSnake]_vars

----------------------------------------------------------------------------
(* The site: each simulation and each game is a page of its own, and one
   page is open *)

Init == InitBoids \/ InitAquarium \/ InitColony \/ InitMemory \/ InitSnake

Next == NextBoids \/ NextAquarium \/ NextColony \/ NextMemory \/ NextSnake

Spec == Init /\ [][Next]_vars

----------------------------------------------------------------------------
(* Properties *)

\* the handler that ran last was an animation frame of a running loop
TickRan == op.name = "animate" /\ ~op.before.isPaused

\* the catches of the tick that just ran
Catches == IF aquarium # Idle /\ TickRan THEN Range(aquarium.catchLog) ELSE {}

\* C1: a shark that has fish within its capture distance removes exactly one of
\* them and fishEaten grows by exactly one, however many fish are in its reach.
C1_OneFishPerCatch ==
    \A c \in Catches : c.inReach >= 1 => c.removed = 1 /\ c.eaten = 1

\* C2: a shark whose huntCooldown is above zero when its turn of the tick begins
\* removes no fish in that tick.
C2_NoCatchWhileCoolingDown ==
    \A c \in Catches : c.cooldown > 0 => c.removed = 0

\* C3: a single boid with no neighbours, no mouse attraction and outside the
\* boundary margin gets zero steering force from a tick.
C3_LoneBoidNoForce ==
    (/\ TickRan
     /\ Len(op.before.boids) = 1
     /\ ~op.before.mouseDown
     /\ boundaryForce(op.before.boids[1]) = Zero)
    => boidsSim.boids[1].ax = 0 /\ boidsSim.boids[1].ay = 0

\* the velocity (vx, vy) is no faster than max
Within(vx, vy, max) == max >= 0 /\ vx * vx + vy * vy <= max * max

FishKinds == {"smallFishCount", "mediumFishCount", "largeFishCount"}

TypeOf(kind) == CASE kind = "smallFishCount" -> "small"
                  [] kind = "mediumFishCount" -> "medium"
                  [] kind = "largeFishCount" -> "large"

\* C5: after a count slider asked for n >= 0 agents of a kind there are exactly
\* n of them: boids, ants, small, medium and large fish, and sharks.
C5_ResizeGivesTarget ==
    /\ (boidsSim # Idle /\ op.name = "boidCount" /\ op.arg >= 0)
       => Len(boidsSim.boids) = op.arg
    /\ (colony # Idle /\ op.name = "antCount" /\ op.arg >= 0)
       => Len(colony.ants) = op.arg
    /\ (aquarium # Idle /\ op.name \in FishKinds /\ op.arg >= 0)
       => Len(OfType(aquarium.fish, TypeOf(op.name))) = op.arg
    /\ (aquarium # Idle /\ op.name = "sharkCount" /\ op.arg >= 0)
       => Len(aquarium.sharks) = op.arg

\* C5, its case: a fish kind is resized after sharks ate fish of that kind
C5_ResizeAfterEaten ==
    /\ aquarium # Idle
    /\ op.name \in FishKinds
    /\ op.arg > 0
    /\ op.before.stats.fishEaten > 0
    /\ Len(OfType(op.before.fish, TypeOf(op.name))) < op.before.params[op.name]
    /\ Len(OfType(aquarium.fish, TypeOf(op.name))) = op.arg

\* C6: a count slider that asks for the count the kind already has changes no
\* agent and (boids) no trail.
C6_SameCountIsNoOp ==
    /\ (boidsSim # Idle /\ op.name = "boidCount" /\ op.arg = Len(op.before.boids))
       => boidsSim.boids = op.before.boids /\ boidsSim.trails = op.before.trails
    /\ (colony # Idle /\ op.name = "antCount" /\ op.arg = Len(op.before.ants))
       => colony.ants = op.before.ants
    /\ (/\ aquarium # Idle
        /\ op.name \in FishKinds
        /\ op.arg = Len(OfType(op.before.fish, TypeOf(op.name))))
       => aquarium.fish = op.before.fish /\ aquarium.sharks = op.before.sharks
    /\ (aquarium # Idle /\ op.name = "sharkCount" /\ op.arg = Len(op.before.sharks))
       => aquarium.fish = op.before.fish /\ aquarium.sharks = op.before.sharks

\* the dot product of two vectors
VecDot(a, b) == a.x * b.x + a.y * b.y

\* the fish that are not of the type
NotOfType(fish, type) == SelectSeq(fish, LAMBDA f : f.type # type)

\* C7: a count slider that asks for zero or fewer agents of a kind ends, leaves
\* none of that kind and leaves the agents of the other kinds alone.
C7_NonPositiveCountEmpties ==
    /\ (boidsSim # Idle /\ op.name = "boidCount" /\ op.arg <= 0)
       => boidsSim.boids = <<>>
    /\ (colony # Idle /\ op.name = "antCount" /\ op.arg <= 0)
       => colony.ants = <<>>
    /\ (aquarium # Idle /\ op.name \in FishKinds /\ op.arg <= 0)
       => /\ ~aquarium.hung
          /\ OfType(aquarium.fish, TypeOf(op.name)) = <<>>
          /\ NotOfType(aquarium.fish, TypeOf(op.name))
                = NotOfType(op.before.fish, TypeOf(op.name))
          /\ aquarium.sharks = op.before.sharks
    /\ (aquarium # Idle /\ op.name = "sharkCount" /\ op.arg <= 0)
       => /\ ~aquarium.hung
          /\ aquarium.sharks = <<>>
          /\ aquarium.fish = op.before.fish

\* the simulation of the page that is open
Open == IF boidsSim # Idle THEN boidsSim ELSE IF aquarium # Idle THEN aquarium ELSE colony

\* C8: a pause issued while the loop is paused leaves it paused.
C8_PauseWhilePausedStaysPaused ==
    (op.name = "pause" /\ op.before.isPaused) => Open.isPaused

\* C9: getNeighbors(boid, index) gives exactly the boids other than the one at
\* index that are closer to boid than neighborRadius, each once.
C9_NeighborsExact ==
    \A i \in Indices(boidsSim.boids) :
        LET found == getNeighbors(boidsSim, boidsSim.boids[i], i)
        IN  /\ Range(found) = {j \in Indices(boidsSim.boids) :
                                  /\ j # i
                                  /\ distance(boidsSim.boids[i], boidsSim.boids[j])
                                        < neighborRadius}
            /\ Cardinality(Range(found)) = Len(found)

\* C9, its case: a boid with a neighbour inside the radius and a boid outside it
C9_NearAndFar ==
    \E i \in Indices(boidsSim.boids) :
        /\ getNeighbors(boidsSim, boidsSim.boids[i], i) # <<>>
        /\ \E j \in Indices(boidsSim.boids) :
              distance(boidsSim.boids[i], boidsSim.boids[j]) >= neighborRadius

\* C10: whatever was deposited and evaporated, no channel of a pheromone cell
\* is below zero.
C10_PheromoneNeverNegative ==
    \A i \in Indices(colony.pheromoneGrid) :
        colony.pheromoneGrid[i].toFood >= 0 /\ colony.pheromoneGrid[i].toNest >= 0

\* the deposits of the tick that just ran
Deposits == IF colony # Idle /\ TickRan THEN Range(colony.deposits) ELSE {}

\* the point (x, y) lies in a cell of the grid: its column and row are in range
InGrid(s, x, y) ==
    /\ x \div pheromoneGridResolution \in 0 .. s.pheromoneGridWidth - 1
    /\ y \div pheromoneGridResolution \in 0 .. s.pheromoneGridHeight - 1

\* C11: right after a deposit of an amount at a place inside the grid, the
\* channel reads at least that amount in the cell of that place.
C11_DepositReadsBack ==
    \A d \in Deposits : InGrid(colony, d.x, d.y) => d.level >= d.amount

\* C13: a deposit at a place outside the grid changes no cell of the grid.
C13_DepositOutsideIgnored ==
    \A d \in Deposits : ~InGrid(colony, d.x, d.y) => d.changed = {}

\* C12: of two boids one unit apart, separate gives each a force that is not
\* zero and points away from the other boid.
C12_SeparationRepels ==
    (Len(boidsSim.boids) = 2 /\ distance(boidsSim.boids[1], boidsSim.boids[2]) = Unit)
    => \A i \in {1, 2} :
          VecDot(separate(boidsSim, boidsSim.boids[i],
                          getNeighbors(boidsSim, boidsSim.boids[i], i)),
                 Vec(boidsSim.boids[i].x - boidsSim.boids[3 - i].x,
                     boidsSim.boids[i].y - boidsSim.boids[3 - i].y)) > 0

\* the candidate point of samplePheromone along an angle
Candidate(s, ant, angle) ==
    Vec(ant.x + Mul(Cos(angle), s.params.searchRadius),
        ant.y + Mul(Sin(angle), s.params.searchRadius))

\* the channel an ant samples: returning ants follow toNest, exploring ants toFood
Sampled(ant) == IF ant.hasFood THEN "toNest" ELSE "toFood"

\* the candidate samplePheromone gives the ant lies outside the grid
PicksOutside(s, ant, direction) ==
    /\ direction # -1
    /\ ~InGrid(s, Candidate(s, ant, direction).x, Candidate(s, ant, direction).y)

\* C14: samplePheromone never gives an ant a direction whose candidate point
\* lies outside the grid.
C14_SampleOutsideNotChosen ==
    colony # Idle =>
       \A i \in Indices(colony.ants) :
          ~PicksOutside(colony, colony.ants[i],
                        samplePheromone(colony, colony.ants[i], Sampled(colony.ants[i])))

\* the boid after a tick that gave it force f and velocity v, from what it was
MovedFrom(was, f, v) ==
    [x |-> wrap(was.x + v.x, boidsCanvas.width), y |-> wrap(was.y + v.y, boidsCanvas.height),
     vx |-> v.x, vy |-> v.y, ax |-> f.x, ay |-> f.y]

\* the boid after a tick in which force f was computed for it
Steered(was, f, maxSpeed) ==
    MovedFrom(was, f, limitSpeed(Vec(was.vx + f.x, was.vy + f.y), maxSpeed))

\* C15: after a tick every boid has the force computed from the boids as they
\* were when the tick began, and has moved by it: no boid saw another one moved.
C15_ForcesFromSnapshot ==
    (boidsSim # Idle /\ TickRan)
    => /\ Len(boidsSim.boids) = Len(op.before.boids)
       /\ \A i \in Indices(boidsSim.boids) :
             boidsSim.boids[i] = Steered(op.before.boids[i], steeringForce(op.before, i),
                                         op.before.params.maxSpeed)

\* C15, its case: a tick ran on boids that are neighbours, and moving the first
\* before the force of the second is computed would have given another result
C15_OrderWouldMatter ==
    /\ boidsSim # Idle
    /\ TickRan
    /\ \E i \in Indices(op.before.boids) :
          getNeighbors(op.before, op.before.boids[i], i) # <<>>
    /\ updateBoidsInterleaved(op.before).boids # boidsSim.boids

\* the aquarium as updateFish finds it in the tick that just ran: the state
\* before the tick with the tick's clock
TickStart == [op.before EXCEPT !.currentTime = aquarium.currentTime]

\* C16: after a tick every fish that is left is the fish it was when the tick
\* began, moved by the forces of the fish as they all were at that time.
C16_FishForcesFromSnapshot ==
    (aquarium # Idle /\ TickRan)
    => \A j \in Indices(aquarium.fish) :
          aquarium.fish[j] = movedFish(TickStart, IndexOfId(op.before.fish, aquarium.fish[j].id))

\* C17: after a tick no boid's trail is longer than the current trailLength and
\* no fish's trail longer than 20, and a boid's trail that was full lost its
\* oldest position.
C17_TrailWithinCapacity ==
    /\ (boidsSim # Idle /\ TickRan)
       => \A i \in Indices(boidsSim.trails) :
             /\ Len(boidsSim.trails[i]) <= boidsSim.params.trailLength
             /\ (/\ boidsSim.params.showTrails
                 /\ Len(op.before.trails[i]) = boidsSim.params.trailLength
                 /\ Len(boidsSim.trails[i]) = boidsSim.params.trailLength)
                => Prefix(boidsSim.trails[i], Len(boidsSim.trails[i]) - 1)
                      = Tail(op.before.trails[i])
    /\ (aquarium # Idle /\ TickRan)
       => \A i \in Indices(aquarium.fish) : Len(aquarium.fish[i].trail) <= FishTrailLength

\* what the deposits of a log added to a channel of the cell at index c
RECURSIVE DepositSum(_, _, _)
DepositSum(log, c, type) ==
    IF log = <<>> THEN 0
    ELSE DepositSum(Tail(log), c, type)
            + (IF Head(log).type = type /\ c \in Head(log).changed THEN Head(log).amount ELSE 0)

\* C18: a frame of the running colony evaporates every cell once, after all the
\* deposits of the frame; a frame of the paused colony deposits and evaporates
\* nothing.
C18_DecayOnceAfterDeposits ==
    (colony # Idle /\ op.name = "animate")
    => IF op.before.isPaused
       THEN colony.pheromoneGrid = op.before.pheromoneGrid /\ colony.ants = op.before.ants
       ELSE /\ Len(colony.deposits) = Len(op.before.ants)
            /\ \A c \in Indices(colony.pheromoneGrid) : \A type \in {"toFood", "toNest"} :
                  colony.pheromoneGrid[c][type]
                     = evaporate(op.before.pheromoneGrid[c][type]
                                    + DepositSum(colony.deposits, c - 1, type),
                                 op.before.params.evaporationRate)

\* C18, its case: in the frame an ant deposited into a cell that held pheromone
C18_DepositOnPheromone ==
    \E d \in Deposits : \E c \in d.changed : op.before.pheromoneGrid[c + 1][d.type] > 0

\* C19: every frame draws the scene, and a frame of a paused simulation changes
\* nothing else: no agent, cell, resource or statistic.
C19_PausedFrameOnlyRenders ==
    op.name = "animate"
    => /\ Open.rendered = op.before.rendered + 1
       /\ op.before.isPaused => [Open EXCEPT !.rendered = op.before.rendered] = op.before

\* C19, its case: a frame of a paused aquarium in which fish and sharks swim
C19_PausedAquariumFrame ==
    /\ aquarium # Idle
    /\ op.name = "animate"
    /\ op.before.isPaused
    /\ op.before.fish # <<>>
    /\ op.before.sharks # <<>>
    /\ aquarium.rendered > 1

\* the turns of the ants that sampled pheromone in the tick that just ran
Turns == IF colony # Idle /\ TickRan THEN Range(colony.turns) ELSE {}

\* C20: an ant for which samplePheromone finds a best heading above the
\* threshold, heading 0 included, takes that heading as its angle when the
\* random draw exceeds explorationRate.
C20_FollowsBestHeading ==
    \A t \in Turns :
       (t.direction # -1 /\ t.draw > colony.params.explorationRate) => t.angle = t.direction

\* the pickups of the tick that just ran
Pickups == IF colony # Idle /\ TickRan THEN Range(colony.pickups) ELSE {}

\* the food sources after a unit is taken from the source at index k: the source
\* one unit smaller, or gone when that was its last unit
OneUnitLess(sources, k) ==
    IF sources[k].amount = 1 THEN RemoveAt(sources, k)
    ELSE [sources EXCEPT ![k].amount = @ - 1]

\* C21: every food source of the world has 0 < amount <= maxAmount; a pickup is
\* made by an ant that carried no food and takes exactly one unit from exactly
\* one source, which leaves the world in that step when it was its last unit.
C21_FoodSourcesStayValid ==
    /\ colony # Idle
       => \A k \in Indices(colony.foodSources) :
             /\ colony.foodSources[k].amount > 0
             /\ colony.foodSources[k].amount <= colony.foodSources[k].maxAmount
    /\ \A p \in Pickups : ~p.carried /\ p.after = OneUnitLess(p.before, p.source)

\* a pickup of the tick that just ran took the last unit of a source
C21_LastUnitTaken ==
    \E p \in Pickups : Len(p.after) < Len(p.before)

\* the canvas of the colony has no area
ZeroArea == colony # Idle /\ colony.canvas.width * colony.canvas.height = 0

\* C22: while the canvas has no area the pheromone grid is empty, and in every
\* tick no deposit writes a cell and no ant is given a direction by
\* samplePheromone; the tick still updates every ant.
C22_ZeroAreaGridIsInert ==
    ZeroArea
    => /\ Len(colony.pheromoneGrid) = 0
       /\ \A d \in Deposits : d.changed = {}
       /\ \A t \in Turns : t.direction = -1
       /\ TickRan => /\ Len(colony.deposits) = Len(colony.ants)
                     /\ colony.stats.exploringAnts + colony.stats.returningAnts
                           = Len(colony.ants)

\* a tick ran on a canvas without area, with ants that sampled and deposited
C22_TickOnZeroArea ==
    /\ ZeroArea
    /\ colony.canvas.width > 0
    /\ Deposits # {}
    /\ Turns # {}

\* every agent of the sequence lies in [0, width] x [0, height] of the canvas
InBounds(agents, canvas) ==
    \A i \in Indices(agents) :
       /\ agents[i].x >= 0 /\ agents[i].x <= canvas.width
       /\ agents[i].y >= 0 /\ agents[i].y <= canvas.height

C23_BoidsInBounds == boidsSim # Idle => InBounds(boidsSim.boids, boidsCanvas)

C23_AntsInBounds == colony # Idle => InBounds(colony.ants, colony.canvas)

C23_SwimmersInBounds ==
    aquarium # Idle => /\ InBounds(aquarium.fish, aquariumCanvas)
                       /\ InBounds(aquarium.sharks, aquariumCanvas)

\* C23: after a tick every boid, every ant and every fish and shark of the
\* aquarium lies within [0, width] x [0, height] of its canvas.
C23_AgentsInBounds ==
    TickRan => C23_BoidsInBounds /\ C23_AntsInBounds /\ C23_SwimmersInBounds

\* a food particle after it fell for one step
Fallen(food) == [food EXCEPT !.y = @ + food.fallSpeed, !.life = @ - 1]

\* the fallen particle meets none of the conditions of removal: it is neither
\* below the bottom edge nor expired nor within the size of a fish
Stays(food) ==
    /\ food.y <= aquariumCanvas.height
    /\ food.life > 0
    /\ ~Eaten(aquarium, food)

\* the food particles as they were when the tick began, each fallen one step
FallenBefore == [i \in Indices(op.before.foodParticles) |-> Fallen(op.before.foodParticles[i])]

\* C24: after a tick the food particles are exactly the particles of before
\* the tick that, fallen one step, are neither below the bottom edge nor
\* expired nor within a fish's size, each once and in their order.
C24_FoodRemovedOnlyForCause ==
    (aquarium # Idle /\ TickRan)
    => aquarium.foodParticles = SelectSeq(FallenBefore, Stays)

\* C25: a count slider of one fish kind leaves the fish of the other two kinds
\* as they were, the same fish in the same order, also after sharks ate fish.
C25_OtherKindsUntouched ==
    (aquarium # Idle /\ op.name \in FishKinds /\ op.arg > 0)
    => NotOfType(aquarium.fish, TypeOf(op.name)) = NotOfType(op.before.fish, TypeOf(op.name))

\* the colony was just reset
WasReset == colony # Idle /\ op.name = "reset"

\* after a reset every pheromone cell is 0, there are antCount ants and none
\* carries food, and foodCollected is 0
C26_ResetClearsColony ==
    WasReset
    => /\ \A c \in Indices(colony.pheromoneGrid) :
             colony.pheromoneGrid[c] = [toFood |-> 0, toNest |-> 0]
       /\ Len(colony.ants) = colony.params.antCount
       /\ \A i \in Indices(colony.ants) : ~colony.ants[i].hasFood
       /\ colony.stats.foodCollected = 0

\* after a reset the world holds the three initial food sources at full amount
C26_ResetRestoresFood ==
    WasReset
    => colony.foodSources = addInitialFood([colony EXCEPT !.foodSources = <<>>]).foodSources

\* C26: after resetColony the colony is in its initial configuration: a grid of
\* zeros, antCount ants without food, foodCollected 0 and exactly the three
\* initial food sources at full amount.
C26_ResetGivesInitialColony == C26_ResetClearsColony /\ C26_ResetRestoresFood

\* the ants of a colony that carry food
Carrying(s) == {i \in Indices(s.ants) : s.ants[i].hasFood}

\* the ants of a colony that carry food within 20 units of the nest
Arriving(s) ==
    {i \in Carrying(s) : Hypot(s.ants[i].x - s.nest.x, s.ants[i].y - s.nest.y) < 20 * Unit}

\* C27: foodCollected plus the ants that carry food is at most the units taken
\* from food sources since the last reset; a tick adds to foodCollected exactly
\* one per carrying ant that began it within 20 units of the nest, and that ant
\* stops carrying; no other handler raises foodCollected.
C27_FoodConserved ==
    colony # Idle
    => /\ colony.stats.foodCollected + Cardinality(Carrying(colony)) <= colony.taken
       /\ TickRan
          => /\ colony.stats.foodCollected
                   = op.before.stats.foodCollected + Cardinality(Arriving(op.before))
             /\ \A i \in Arriving(op.before) : ~colony.ants[i].hasFood
       /\ (~TickRan /\ op.name # "init")
          => colony.stats.foodCollected <= op.before.stats.foodCollected

\* a tick in which a carrying ant arrived at the nest
C27_AntArrived == colony # Idle /\ TickRan /\ Arriving(op.before) # {}

\* sequence a is the end of sequence b
IsSuffix(a, b) == Len(a) <= Len(b) /\ a = SubSeq(b, Len(b) - Len(a) + 1, Len(b))

\* the position the tick that just ran pushed on the trail of the boid at
\* index i: where the boid was, moved by its new velocity, before wrapping
Pushed(i) ==
    [x |-> op.before.boids[i].x + boidsSim.boids[i].vx,
     y |-> op.before.boids[i].y + boidsSim.boids[i].vy]

\* C28: trails and boids have one length; a tick leaves in trails[i] the end of
\* what it held with the new position of boids[i] appended, or nothing when
\* trails are off; any other handler leaves trails[i] empty or leaves both it
\* and boids[i] as they were.
C28_TrailsParallelToBoids ==
    boidsSim # Idle
    => /\ Len(boidsSim.trails) = Len(boidsSim.boids)
       /\ TickRan
          => \A i \in Indices(boidsSim.trails) :
                IF boidsSim.params.showTrails
                THEN IsSuffix(boidsSim.trails[i], Append(op.before.trails[i], Pushed(i)))
                ELSE boidsSim.trails[i] = <<>>
       /\ (~TickRan /\ op.name # "init")
          => \A i \in Indices(boidsSim.trails) :
                \/ boidsSim.trails[i] = <<>>
                \/ /\ i <= Len(op.before.trails)
                   /\ boidsSim.trails[i] = op.before.trails[i]
                   /\ boidsSim.boids[i] = op.before.boids[i]

\* a tick after the flock grew: an old boid's trail holds two positions, the
\* new boid's trail its first
C28_TrailsOfOldAndNewBoids ==
    /\ boidsSim # Idle
    /\ TickRan
    /\ Len(boidsSim.boids) > InitBoidCount
    /\ \E i, j \in Indices(boidsSim.trails) :
          /\ Len(boidsSim.trails[i]) >= 2
          /\ Len(boidsSim.trails[j]) = 1
          /\ boidsSim.trails[j][1] = Pushed(j)

----------------------------------------------------------------------------
(* The memory game across a restart *)

CurrentCards == { memoryGame.cards[i] : i \in CardIndexes }

\* the cards of the board in play that carry the class matched
MatchedNow == memoryGame.matched \cap CurrentCards

\* a timeout set for an earlier board has run since the board was dealt
AfterStaleTimeout == memoryGame # Idle /\ memoryGame.staleFired

C29_CountIsOfThisGame ==
    AfterStaleTimeout => 2 * memoryGame.matchedPairs = Cardinality(MatchedNow)

C29_FlippedAreOfThisGame ==
    AfterStaleTimeout =>
        \A k \in 1 .. Len(memoryGame.flippedCards) :
            memoryGame.flippedCards[k] \in CurrentCards

C29_EndsWhenAllMatched ==
    (AfterStaleTimeout /\ memoryGame.ended) => MatchedNow = CurrentCards

\* C29: a restart of the memory game while a timeout of the board before
\* is pending does not corrupt the new game: once the stale timeout has
\* run, matchedPairs is the number of pairs matched on the board in play,
\* flippedCards holds cards of that board only, and the game has ended
\* only if every pair of that board is matched
C29_RestartKeepsGameSound ==
    /\ C29_CountIsOfThisGame
    /\ C29_FlippedAreOfThisGame
    /\ C29_EndsWhenAllMatched

\* in a game no stale timeout has touched the three hold
C29_SoundWithoutRestart ==
    (memoryGame # Idle /\ ~memoryGame.staleFired) =>
        /\ 2 * memoryGame.matchedPairs = Cardinality(MatchedNow)
        /\ \A k \in 1 .. Len(memoryGame.flippedCards) :
              memoryGame.flippedCards[k] \in CurrentCards
        /\ memoryGame.ended => MatchedNow = CurrentCards

----------------------------------------------------------------------------
(* The snake never turns back on itself *)

\* updateGame has just moved a snake that had moved before
MovedAgain ==
    /\ snakeGame # Idle
    /\ op.name = "updateGame"
    /\ op.before.moves > 0

\* C30: the snake never reverses by 180 degrees: whatever directions were
\* asked for between two moves of a snake, the direction of the later
\* move is not the opposite of the direction of the move before it
C30_NoReversal ==
    MovedAgain => ~Opposite(snakeGame.direction, op.before.direction)

\* a move made after several directions were asked for, one of them the
\* opposite of the direction the snake was moving in
C30_MovedAfterReverseKey ==
    /\ MovedAgain
    /\ Len(op.before.keys) >= 2
    /\ \E k \in 1 .. Len(op.before.keys) :
          Opposite(op.before.keys[k], op.before.direction)
    /\ snakeGame.direction # op.before.direction

====
